---- MODULE Spec2Model ----
(***************************************************************************)
(* A model of the jsonproto type-handler engine: the number handler, the   *)
(* union handler, the record (model) handler and the codec driver.         *)
(*                                                                         *)
(* Python values are tagged records, so that values of different classes   *)
(* can be compared.  A str is a sequence of one-character strings, so that *)
(* get_alias, str.isdigit and the JSON text form are computed, not assumed.*)
(***************************************************************************)
EXTENDS Integers, Sequences, FiniteSets, TLC

VARIABLES
    numberHandler,  \* NumberLikeHandler (IntHandler) object: constraints, _validators, _prebuilt
    numberCall,     \* last IntHandler.handle call: its arguments and what it returned
    unionHandler,   \* UnionHandler object: strategy, arms, lazily built arm handlers
    unionCall,      \* last UnionHandler.handle call
    modelHandler,   \* ModelHandler object: the record class, its bag, the built groups
    modelCall,      \* last ModelHandler.handle call
    codec,          \* Codec object: _config_cache, and the output stream it was given
    codecCall,      \* last Codec.execute call and the progress of a round trip
    leafHandler,    \* StringHandler / EnumHandler object: constraints, what build() left
    leafCall,       \* last handle call on it
    registry,       \* TypeHandlerRegistry chain and the codec's handler cache
    registryCall,   \* last registration or lookup
    patches,        \* Patches object: the ordered patches and the memo
    patchCall,      \* last Patches.patch call
    instance,       \* a record instance: class, field values, _setted_, memoized hash
    instanceCall,   \* last operation on the instance
    jsonPointer     \* a JsonPointer and the path rendered for it

vars == <<numberHandler, numberCall, unionHandler, unionCall,
          modelHandler, modelCall, codec, codecCall,
          leafHandler, leafCall, registry, registryCall, patches, patchCall,
          instance, instanceCall, jsonPointer>>

numberVars == <<numberHandler, numberCall>>
unionVars == <<unionHandler, unionCall>>
modelVars == <<modelHandler, modelCall>>
codecVars == <<codec, codecCall>>
leafVars == <<leafHandler, leafCall>>
registryVars == <<registry, registryCall>>
patchVars == <<patches, patchCall>>
instanceVars == <<instance, instanceCall>>

(***************************************************************************)
(* Bounds of the model.                                                    *)
(***************************************************************************)
MaxLimit == 1        \* Value limits are drawn from 0..MaxLimit
MaxConstraints == 2  \* a number handler's bag holds at most this many constraints
MaxArms == 3         \* a left-to-right union has 2..MaxArms arms

Idle == [kind |-> "idle"]

\* the objects a specification does not use stay idle
HandlersIdle ==
    /\ numberHandler = Idle /\ numberCall = Idle
    /\ unionHandler = Idle /\ unionCall = Idle
    /\ modelHandler = Idle /\ modelCall = Idle
    /\ codec = Idle /\ codecCall = Idle
LeafIdle == leafHandler = Idle /\ leafCall = Idle
RegistryIdle == registry = Idle /\ registryCall = Idle
PatchesIdle == patches = Idle /\ patchCall = Idle
InstanceIdle == instance = Idle /\ instanceCall = Idle
PointerIdle == jsonPointer = Idle
OthersIdle == LeafIdle /\ RegistryIdle /\ PatchesIdle /\ InstanceIdle /\ PointerIdle
othersVars == <<leafVars, registryVars, patchVars, instanceVars, jsonPointer>>

(***************************************************************************)
(* Python values.                                                          *)
(***************************************************************************)
Empty == [t |-> "Empty"]
NoneV == [t |-> "none"]
IntV(i) == [t |-> "int", i |-> i]
FloatV(i, half) == [t |-> "float", i |-> i, half |-> half]  \* i, or i + 0.5
StrV(s) == [t |-> "str", s |-> s]
BoolV(b) == [t |-> "bool", b |-> b]
DictV(m) == [t |-> "dict", m |-> m]
ListV(l) == [t |-> "list", l |-> l]

Formats == {"json", "unstruct", "struct"}

\* The three flags, at least one set (Codec.execute refuses the rest).
Flags == {f \in [coerce : BOOLEAN, validate : BOOLEAN, convert : BOOLEAN] :
            f.coerce \/ f.validate \/ f.convert}

Ok(value, issues) == [value |-> value, issues |-> issues, raised |-> "none"]
Raise(exc) == [value |-> Empty, issues |-> <<>>, raised |-> exc]

RootPointer == <<>>
Join(pointer, atom) == Append(pointer, atom)

\* str characters
Digits == {"0", "1", "2", "3"}
DigitValue(c) == CASE c = "0" -> 0 [] c = "1" -> 1 [] c = "2" -> 2 [] c = "3" -> 3
IsDigit(s) == Len(s) > 0 /\ \A k \in 1..Len(s) : s[k] \in Digits
RECURSIVE IntOfStr(_)
IntOfStr(s) == IF Len(s) = 0 THEN 0
               ELSE 10 * IntOfStr(SubSeq(s, 1, Len(s) - 1)) + DigitValue(s[Len(s)])

\* A set as a sequence, in an order fixed by CHOOSE (iteration order of a set).
RECURSIVE SetToSeq(_)
SetToSeq(S) == IF S = {} THEN <<>>
               ELSE LET x == CHOOSE y \in S : TRUE IN <<x>> \o SetToSeq(S \ {x})

SeqToSet(s) == {s[k] : k \in 1..Len(s)}

(***************************************************************************)
(* Constraints (the ones the handlers below read).                         *)
(***************************************************************************)
ValueComparators == {"eq", "gt", "ge", "le", "lt"}
Value(comparator, value) ==
    [constraint_type |-> "value", comparator |-> comparator, value |-> value]
Format(value) == [constraint_type |-> "format", value |-> value]
Length(comparator, value) ==
    [constraint_type |-> "length", comparator |-> comparator, value |-> value]
Disjoint(field_names) == [constraint_type |-> "disjoint", field_names |-> field_names]
Dependent(field_names) == [constraint_type |-> "dependent", field_names |-> field_names]
Discriminator(field_name) == [constraint_type |-> "discriminator", field_name |-> field_name]
Default(value) == [constraint_type |-> "default", value |-> value]
DefaultFactory(value) == [constraint_type |-> "default_factory", value |-> value]
Example(value) == [constraint_type |-> "example", value |-> value]

\* constraint_id: per comparator for Value and Length, per format for Format, and the
\* constraint_type itself for Disjoint, Dependent and Discriminator.
ConstraintId(c) ==
    CASE c.constraint_type = "value" -> <<"value", c.comparator>>
      [] c.constraint_type = "format" -> <<"format", c.value>>
      [] c.constraint_type = "length" -> <<"length", c.comparator>>
      [] OTHER -> <<c.constraint_type>>

\* Constraints.append for an id that allows one instance: assigning to
\* self._mapping[id] replaces the constraint where it stands, or adds it last.
BagIds(bag) == {ConstraintId(bag[k]) : k \in 1..Len(bag)}
BagAssign(bag, c) ==
    IF ConstraintId(c) \in BagIds(bag)
    THEN [k \in 1..Len(bag) |->
            IF ConstraintId(bag[k]) = ConstraintId(c) THEN c ELSE bag[k]]
    ELSE Append(bag, c)
\* self._mapping.pop(id, None)
BagPop(bag, id) == SelectSeq(bag, LAMBDA x : ConstraintId(x) # id)
\* the deque of examples stands where the first example was put
BagAppendExample(bag, c) ==
    IF ConstraintId(c) \in BagIds(bag)
    THEN LET last == CHOOSE k \in 1..Len(bag) :
                        /\ ConstraintId(bag[k]) = ConstraintId(c)
                        /\ \A j \in (k + 1)..Len(bag) : ConstraintId(bag[j]) # ConstraintId(c)
         IN SubSeq(bag, 1, last) \o <<c>> \o SubSeq(bag, last + 1, Len(bag))
    ELSE Append(bag, c)
\* Constraints.append: examples are collected, every other id holds one
\* constraint, and a default and a default factory put each other out
BagAppend(bag, c) ==
    CASE c.constraint_type = "example" -> BagAppendExample(bag, c)
      [] c.constraint_type = "default" -> BagPop(BagAssign(bag, c), <<"default_factory">>)
      [] c.constraint_type = "default_factory" -> BagPop(BagAssign(bag, c), <<"default">>)
      [] OTHER -> BagAssign(bag, c)

\* Constraints.__new__ / _extend: append each in turn.
RECURSIVE BagExtend(_, _)
BagExtend(bag, cs) ==
    IF Len(cs) = 0 THEN bag ELSE BagExtend(BagAppend(bag, Head(cs)), Tail(cs))
ConstraintsNew(cs) == BagExtend(<<>>, cs)

\* Constraints.extendleft: ids already in the bag win, the others are appended.
RECURSIVE BagExtendLeft(_, _)
BagExtendLeft(bag, cs) ==
    IF Len(cs) = 0 THEN bag
    ELSE IF ConstraintId(Head(cs)) \in BagIds(bag)
         THEN BagExtendLeft(bag, Tail(cs))
         ELSE BagExtendLeft(BagAppend(bag, Head(cs)), Tail(cs))

\* Constraints.get(constraint_id), None when absent.
BagGet(bag, id) ==
    IF id \in BagIds(bag)
    THEN bag[CHOOSE k \in 1..Len(bag) : ConstraintId(bag[k]) = id]
    ELSE NoneV

(***************************************************************************)
(* NumberLikeHandler / IntHandler  (_handlers/numbers.py)                  *)
(***************************************************************************)
IsNumber(v) == v.t \in {"int", "float", "bool"}
\* twice the numeric value, so that halves stay integers
Twice(v) == CASE v.t = "int" -> 2 * v.i
              [] v.t = "float" -> 2 * v.i + (IF v.half THEN 1 ELSE 0)
              [] v.t = "bool" -> IF v.b THEN 2 ELSE 0

RECURSIVE BitLengthNat(_)
BitLengthNat(n) == IF n = 0 THEN 0 ELSE 1 + BitLengthNat(n \div 2)
\* int.bit_length: the bits of the absolute value
BitLength(i) == BitLengthNat(IF i < 0 THEN -i ELSE i)

\* an int beyond the model checker's own integers: sign and magnitude, the
\* magnitude in limbs of LimbBits bits, lowest first, the highest not 0
LimbBits == 16
BigV(neg, limbs) == [t |-> "int", neg |-> neg, limbs |-> limbs]
IsBig(v) == "limbs" \in DOMAIN v
\* int.bit_length of a magnitude in limbs
BigBitLength(limbs) ==
    IF Len(limbs) = 0 THEN 0
    ELSE LimbBits * (Len(limbs) - 1) + BitLengthNat(limbs[Len(limbs)])

FormatIssue(value, pointer, format) ==
    [issue_type |-> "format", value |-> value, pointer |-> pointer, format |-> format]
NumberIssue(value, pointer, comparator, limit) ==
    [issue_type |-> "number", value |-> value, pointer |-> pointer,
     comparator |-> comparator, limit |-> limit]
JsonTypeIssue(value, pointer, expected_type) ==
    [issue_type |-> "json_type", value |-> value, pointer |-> pointer,
     expected_type |-> expected_type]
StructTypeIssue(value, pointer, expected_type) ==
    [issue_type |-> "struct_type", value |-> value, pointer |-> pointer,
     expected_type |-> expected_type]

\* _validate_32_bit / _validate_64_bit; value.bit_length exists on int (and bool) only
validate_bits(bits, format, value, pointer) ==
    IF value.t \notin {"int", "bool"} THEN Raise("AttributeError")
    ELSE IF (IF IsBig(value) THEN BigBitLength(value.limbs)
             ELSE BitLength(Twice(value) \div 2)) > bits
         THEN Ok(value, <<FormatIssue(value, pointer, format)>>)
         ELSE Ok(value, <<>>)

\* _validate_eq, _validate_gt, _validate_ge, _validate_le, _validate_lt.
\* Ordering a str or None against a number raises TypeError; == does not.
validate_cmp(comparator, limit, value, pointer) ==
    IF ~IsNumber(value)
    THEN IF comparator = "eq"
         THEN Ok(value, <<NumberIssue(value, pointer, comparator, limit)>>)
         ELSE Raise("TypeError")
    ELSE LET v2 == Twice(value)
             l2 == 2 * limit
             holds == CASE comparator = "eq" -> v2 = l2
                        [] comparator = "gt" -> v2 > l2
                        [] comparator = "ge" -> v2 >= l2
                        [] comparator = "le" -> v2 <= l2
                        [] comparator = "lt" -> v2 < l2
         IN IF holds THEN Ok(value, <<>>)
            ELSE Ok(value, <<NumberIssue(value, pointer, comparator, limit)>>)

RunValidator(validator, value, pointer) ==
    CASE validator.fn = "_validate_32_bit" -> validate_bits(32, "int32", value, pointer)
      [] validator.fn = "_validate_64_bit" -> validate_bits(64, "int64", value, pointer)
      [] OTHER -> validate_cmp(validator.comparator, validator.limit, value, pointer)

\* issues.extend(issue for validator in validators for issue in validator(...))
RECURSIVE RunValidators(_, _, _)
RunValidators(validators, value, pointer) ==
    IF Len(validators) = 0 THEN Ok(value, <<>>)
    ELSE LET first == RunValidator(Head(validators), value, pointer)
         IN IF first.raised # "none" THEN first
            ELSE LET rest == RunValidators(Tail(validators), value, pointer)
                 IN IF rest.raised # "none" THEN rest
                    ELSE Ok(value, first.issues \o rest.issues)

CmpValidator(comparator, limit) ==
    [fn |-> "_validate_" \o comparator, comparator |-> comparator, limit |-> limit]

\* the last constraint of the bag with this comparator (the loop's assignments)
LastValue(constraints, comparator) == BagGet(constraints, <<"value", comparator>>)

\* the validators appended inside the loop: one per int32 / int64 format
RECURSIVE FormatValidators(_)
FormatValidators(constraints) ==
    IF Len(constraints) = 0 THEN <<>>
    ELSE LET c == Head(constraints)
             mine == IF c.constraint_type = "format" /\ c.value = "int32"
                     THEN <<[fn |-> "_validate_32_bit"]>>
                     ELSE IF c.constraint_type = "format" /\ c.value = "int64"
                          THEN <<[fn |-> "_validate_64_bit"]>>
                          ELSE <<>>
         IN mine \o FormatValidators(Tail(constraints))

\* NumberLikeHandler.build: the _validators list
NumberBuild(constraints) ==
    IF Len(constraints) = 0 THEN <<>>
    ELSE
    LET eq == LastValue(constraints, "eq")
        min_exc0 == LastValue(constraints, "gt")
        min_inc0 == LastValue(constraints, "ge")
        max_inc == LastValue(constraints, "le")
        max_exc == LastValue(constraints, "lt")
        both_min == min_inc0 # NoneV /\ min_exc0 # NoneV
        min_exc == IF both_min /\ min_inc0.value > min_exc0.value THEN NoneV ELSE min_exc0
        min_inc == IF both_min /\ ~(min_inc0.value > min_exc0.value) THEN NoneV ELSE min_inc0
        lower == IF min_inc # NoneV THEN <<CmpValidator("ge", min_inc.value)>>
                 ELSE IF min_exc # NoneV THEN <<CmpValidator("gt", min_exc.value)>>
                 ELSE <<>>
        \* with both max_inc and max_exc given the code assigns min_exc / min_inc
        \* (lines 181-185), after the lower validator was appended: max_inc and
        \* max_exc are left as they were
        upper == IF max_inc # NoneV THEN <<CmpValidator("le", max_inc.value)>>
                 ELSE IF max_exc # NoneV THEN <<CmpValidator("lt", max_exc.value)>>
                 ELSE <<>>
    IN FormatValidators(constraints)
       \o (IF eq # NoneV THEN <<CmpValidator("eq", eq.value)>> ELSE lower \o upper)

\* IntHandler.coerce
IntCoerce(value) ==
    CASE value.t = "int" -> value
      [] value.t = "bool" -> value            \* isinstance(True, int)
      [] value.t = "float" -> IF value.half THEN value ELSE IntV(value.i)
      [] value.t = "str" -> IF IsDigit(value.s) THEN IntV(IntOfStr(value.s)) ELSE value
      [] OTHER -> value

\* NumberLikeHandler.handle for IntHandler (structure = destructure = int,
\* structure_class = destructure_class = int, so _is_destructure_class_number)
IntHandle(validators, value, pointer, included, excluded, config) ==
    IF ~included \/ excluded \/ value = Empty THEN Ok(Empty, <<>>)
    ELSE
    LET coerced == IF config.coerce THEN IntCoerce(value) ELSE value
        is_int == coerced.t = "int"
        answer(issues) == IF config.convert THEN Ok(coerced, issues)
                          ELSE IF config.coerce THEN Ok(coerced, issues)
                          ELSE Ok(value, issues)
    IN IF config.source = "json"
       THEN IF ~is_int
            THEN answer(<<JsonTypeIssue(coerced, pointer, "integer")>>)
            ELSE IF config.validate /\ Len(validators) > 0
                 THEN LET run == RunValidators(validators, coerced, pointer)
                      IN IF run.raised # "none" THEN run ELSE answer(run.issues)
                 ELSE answer(<<>>)
       ELSE LET type_issues == IF is_int THEN <<>>
                               ELSE <<StructTypeIssue(coerced, pointer, "int")>>
            IN IF config.validate /\ Len(validators) > 0
               THEN LET run == RunValidators(validators, coerced, pointer)
                    IN IF run.raised # "none" THEN run
                       ELSE answer(type_issues \o run.issues)
               ELSE answer(type_issues)


(***************************************************************************)
(* str helpers and get_alias  (_common.py)                                 *)
(***************************************************************************)
LowerLetters == <<"a", "b", "c", "d", "i", "k", "n", "x", "y">>
UpperLetters == <<"A", "B", "C", "D", "I", "K", "N", "X", "Y">>
UpperChar(c) == IF \E k \in 1..Len(LowerLetters) : LowerLetters[k] = c
                THEN UpperLetters[CHOOSE k \in 1..Len(LowerLetters) : LowerLetters[k] = c]
                ELSE c
LowerChar(c) == IF \E k \in 1..Len(UpperLetters) : UpperLetters[k] = c
                THEN LowerLetters[CHOOSE k \in 1..Len(UpperLetters) : UpperLetters[k] = c]
                ELSE c
\* str.lower
Lower(s) == [k \in 1..Len(s) |-> LowerChar(s[k])]
\* str.title of a part that holds no separator: first letter upper, the rest lower
Title(s) == [k \in 1..Len(s) |-> IF k = 1 THEN UpperChar(s[k]) ELSE LowerChar(s[k])]

\* name.split("_")
RECURSIVE Split(_)
Split(s) ==
    IF \A k \in 1..Len(s) : s[k] # "_" THEN <<s>>
    ELSE LET cut == CHOOSE k \in 1..Len(s) :
                        s[k] = "_" /\ \A j \in 1..(k - 1) : s[j] # "_"
         IN <<SubSeq(s, 1, cut - 1)>> \o Split(SubSeq(s, cut + 1, Len(s)))

RECURSIVE JoinTitled(_)
JoinTitled(parts) ==
    IF Len(parts) = 0 THEN <<>> ELSE Title(Head(parts)) \o JoinTitled(Tail(parts))

\* get_alias: lower camel case from snake case
get_alias(name) ==
    LET parts == Split(name) IN Lower(parts[1]) \o JoinTitled(Tail(parts))

(***************************************************************************)
(* dict: insertion-ordered pairs with distinct keys                        *)
(***************************************************************************)
DictKeys(m) == {m[k][1] : k \in 1..Len(m)}
DictHas(m, key) == key \in DictKeys(m)
DictGet(m, key) == m[CHOOSE k \in 1..Len(m) : m[k][1] = key][2]
\* m[key] = value: in place for a key already there, last otherwise
DictSet(m, key, value) ==
    IF DictHas(m, key)
    THEN [k \in 1..Len(m) |-> IF m[k][1] = key THEN <<key, value>> ELSE m[k]]
    ELSE Append(m, <<key, value>>)
\* dict equality does not look at the order
DictEq(m1, m2) == /\ DictKeys(m1) = DictKeys(m2)
                  /\ \A key \in DictKeys(m1) : DictGet(m1, key) = DictGet(m2, key)

(***************************************************************************)
(* Record classes and instances  (_struct.py)                              *)
(***************************************************************************)
\* a field descriptor; default = Empty (the MISSING sentinel) for a required field
Field(name, type_hint, default) ==
    [name |-> name, type_hint |-> type_hint, default |-> default]

\* @struct(constraints=...): __call__ stores Constraints(constraints) on the class
StructClass(name, fields, constraints) ==
    [name |-> name, fields |-> fields, computed |-> {},
     declared |-> constraints,      \* the decorator's argument, as written
     constraints |-> ConstraintsNew(constraints)]

get_names(cls) == [k \in 1..Len(cls.fields) |-> cls.fields[k].name]
FieldNamed(cls, name) ==
    cls.fields[CHOOSE k \in 1..Len(cls.fields) : cls.fields[k].name = name]
\* field.is_required: not computed, no default
get_required(cls) ==
    {cls.fields[k].name : k \in {j \in 1..Len(cls.fields) :
        cls.fields[j].name \notin cls.computed /\ cls.fields[j].default = Empty}}
get_computed(cls) == cls.computed
get_constraints(cls) == cls.constraints

StructV(cls_name, f, setted, extras) ==
    [t |-> "struct", cls |-> cls_name, f |-> f, setted |-> setted, extras |-> extras]
is_struct_instance(v) == v.t = "struct"
get_unsetted(cls, v) == SeqToSet(get_names(cls)) \ v.setted

\* _create_init: has_defaults picks the __init__ template
has_defaults(cls) == \E k \in 1..Len(cls.fields) : cls.fields[k].default # Empty

\* cls(**kwargs): the generated __init__.  A required field left out is a
\* TypeError; a defaulted one takes its default.  Only the templates for a
\* class with a defaulted field create _setted_ and add each passed name to
\* it; the templates for a class without one never set _setted_, and
\* get_setted then answers its fallback, the empty frozenset.
StructNew(cls, kwargs) ==
    IF \E r \in get_required(cls) : ~DictHas(kwargs, r) THEN Raise("TypeError")
    ELSE Ok(StructV(cls.name,
                    [n \in SeqToSet(get_names(cls)) |->
                        IF DictHas(kwargs, n) THEN DictGet(kwargs, n)
                        ELSE FieldNamed(cls, n).default],
                    IF has_defaults(cls) THEN DictKeys(kwargs) ELSE {}, <<>>),
            <<>>)
\* __eq__: same class and equal fields
StructEq(v1, v2) == v1.t = "struct" /\ v2.t = "struct" /\ v1.cls = v2.cls /\ v1.f = v2.f
\* set_extras
set_extras(v, extras) == [v EXCEPT !.extras = extras]

(***************************************************************************)
(* JsonPath, as far as the handlers use it: everything, nothing, or a      *)
(* pattern without metacharacters, which matches by equality.              *)
(***************************************************************************)
PathEverything == [kind |-> "everything"]
PathNothing == [kind |-> "nothing"]
PathExact(pointer) == [kind |-> "exact", pointer |-> pointer]
PathMatches(path, pointer) ==
    CASE path.kind = "everything" -> TRUE
      [] path.kind = "nothing" -> FALSE
      [] OTHER -> path.pointer = pointer

(***************************************************************************)
(* Leaf handlers used for record fields and union arms.                    *)
(***************************************************************************)
\* StringHandler.handle for plain str without constraints: structure,
\* destructure and copy_structure leave a str as it is
StrHandle(value, pointer, included, excluded, config) ==
    IF ~included \/ excluded \/ value = Empty THEN Ok(Empty, <<>>)
    ELSE IF value.t = "str" THEN Ok(value, <<>>)
    ELSE IF config.source = "json"
         THEN Ok(value, <<JsonTypeIssue(value, pointer, "string")>>)
         ELSE Ok(value, <<StructTypeIssue(value, pointer, "str")>>)

\* BoolHandler.handle
BoolHandle(value, pointer, included, excluded, config) ==
    IF ~included \/ excluded \/ value = Empty THEN Ok(Empty, <<>>)
    ELSE IF value.t = "bool" THEN Ok(value, <<>>)
    ELSE IF config.source = "json"
         THEN Ok(value, <<JsonTypeIssue(value, pointer, "boolean")>>)
         ELSE Ok(value, <<StructTypeIssue(value, pointer, "bool")>>)

\* the handler get_type_handler(type_hint) returns for a scalar hint
LeafHandle(type_hint, value, pointer, included, excluded, config) ==
    CASE type_hint = "int" -> IntHandle(<<>>, value, pointer, included, excluded, config)
      [] type_hint = "str" -> StrHandle(value, pointer, included, excluded, config)
      [] type_hint = "bool" -> BoolHandle(value, pointer, included, excluded, config)

(***************************************************************************)
(* ModelHandler  (_handlers/models.py)                                     *)
(***************************************************************************)
ExtraFieldIssue(extra, value, pointer) ==
    [issue_type |-> "extra_field", extra |-> extra, value |-> value, pointer |-> pointer]
MissingFieldIssue(value, pointer) ==
    [issue_type |-> "missing_field", value |-> value, pointer |-> pointer]
\* DependentIssue, with its computed field missing = dependent - setted
DependentIssue(value, pointer, dependent, setted) ==
    [issue_type |-> "dependent", value |-> value, pointer |-> pointer,
     dependent |-> dependent, setted |-> setted, missing |-> dependent \ setted]
DisjointIssue(value, pointer, disjoint, setted) ==
    [issue_type |-> "disjoint", value |-> value, pointer |-> pointer,
     disjoint |-> disjoint, setted |-> setted]

\* the field_names of the bag's constraints of one constraint_type, in bag order
RECURSIVE GroupsOf(_, _)
GroupsOf(bag, constraint_type) ==
    IF Len(bag) = 0 THEN <<>>
    ELSE (IF Head(bag).constraint_type = constraint_type
          THEN <<Head(bag).field_names>> ELSE <<>>)
         \o GroupsOf(Tail(bag), constraint_type)

\* the inner loop of the merge: depgrp.update(jdepgrp) for each later group
\* that intersects what depgrp has grown to
RECURSIVE MergeLater(_, _)
MergeLater(depgrp, later) ==
    IF Len(later) = 0 THEN depgrp
    ELSE MergeLater(IF depgrp \cap Head(later) = {} THEN depgrp
                    ELSE depgrp \cup Head(later),
                    Tail(later))

MergeDependentGroups(depgrps) ==
    {MergeLater(depgrps[i], SubSeq(depgrps, i + 1, Len(depgrps))) : i \in 1..Len(depgrps)}

AliasOfName(cls, name) == get_alias(name)   \* no Alias constraint on the fields modelled
AliasesOf(cls, group) == {AliasOfName(cls, n) : n \in group}

\* self._field_type_handlers: filled field by field under the name and under
\* the alias, a later assignment replacing an earlier one
FieldKeys(cls) ==
    {cls.fields[k].name : k \in 1..Len(cls.fields)}
    \cup {AliasOfName(cls, cls.fields[k].name) : k \in 1..Len(cls.fields)}
FieldInfo(cls, key) ==
    LET fld == cls.fields[CHOOSE k \in 1..Len(cls.fields) :
                   /\ key \in {cls.fields[k].name, AliasOfName(cls, cls.fields[k].name)}
                   /\ \A j \in (k + 1)..Len(cls.fields) :
                        key \notin {cls.fields[j].name, AliasOfName(cls, cls.fields[j].name)}]
    IN [name |-> fld.name, alias |-> AliasOfName(cls, fld.name),
        default |-> fld.default, type_hint |-> fld.type_hint]

\* ModelHandler.build.  constraints is the bag the handler was created with
\* (the constraints given where the record type is referenced).
ModelBuild(cls, constraints) ==
    LET bag == BagExtendLeft(constraints, get_constraints(cls))
        dependent_groups_names == MergeDependentGroups(GroupsOf(bag, "dependent"))
        disjoint_groups_names == SeqToSet(GroupsOf(bag, "disjoint"))
    IN IF \E depgrp \in dependent_groups_names, disgrp \in disjoint_groups_names :
              Cardinality(depgrp \cap disgrp) > 1
       THEN [raised |-> "ConstraintError"]
       ELSE [raised |-> "none",
             constraints |-> bag,
             dependent_groups_names |-> dependent_groups_names,
             disjoint_groups_names |-> disjoint_groups_names,
             required_names |-> get_required(cls),
             computed_names |-> get_computed(cls),
             required_aliases |-> AliasesOf(cls, get_required(cls)),
             dependent_groups_aliases |->
                 {AliasesOf(cls, depgrp) : depgrp \in dependent_groups_names},
             disjoint_groups_aliases |->
                 {AliasesOf(cls, disgrp) : disgrp \in disjoint_groups_names}]

\* the items the loop iterates: (name, getattr) in declared order for a record
\* instance, value.items() for a dict
ItemsOf(cls, cvalue) ==
    IF is_struct_instance(cvalue)
    THEN [k \in 1..Len(get_names(cls)) |-> <<get_names(cls)[k], cvalue.f[get_names(cls)[k]]>>]
    ELSE cvalue.m

\* forbid handled as drop is
HandleExtraSilent(acc, config, vname, vvalue, field_pointer) ==
    CASE config.extras_mode \in {"drop", "forbid"} -> acc
      [] config.extras_mode = "roundtrip" ->
            IF config.target = "struct"
            THEN [acc EXCEPT !.extras = DictSet(@, vname, vvalue)]
            ELSE [acc EXCEPT !.field_mapping = DictSet(@, vname, vvalue)]

\* the match on config.extras_mode for an entry whose key is no field key
HandleExtra(acc, config, vname, vvalue, field_pointer) ==
    CASE config.extras_mode = "drop" -> acc
      [] config.extras_mode = "forbid" ->
            [acc EXCEPT !.issues = Append(@, ExtraFieldIssue(vname, vvalue, field_pointer))]
      [] config.extras_mode = "roundtrip" ->
            IF config.target = "struct"
            THEN [acc EXCEPT !.extras = DictSet(@, vname, vvalue)]
            ELSE [acc EXCEPT !.field_mapping = DictSet(@, vname, vvalue)]

\* the tail of the loop body: the field handler's result put where the target
\* shape wants it
DepositField(b, acc, config, vname, info, handled) ==
    IF handled.raised # "none" THEN [acc EXCEPT !.raised = handled.raised]
    ELSE IF handled.value = Empty THEN acc
    ELSE CASE config.target = "json" ->
                [acc EXCEPT !.issues = @ \o handled.issues,
                            !.set_vnames = @ \cup {vname},
                            !.field_mapping = DictSet(@, info.alias, handled.value)]
           [] config.target = "unstruct" ->
                [acc EXCEPT !.issues = @ \o handled.issues,
                            !.set_vnames = @ \cup {vname},
                            !.field_mapping = DictSet(@, info.name, handled.value)]
           [] config.target = "struct" /\ info.name \in b.computed_names ->
                [acc EXCEPT !.issues = @ \o handled.issues,
                            !.set_vnames = @ \cup {vname},
                            !.computed_mapping = DictSet(@, info.name, handled.value)]
           [] config.target = "struct" /\ info.name \notin b.computed_names ->
                [acc EXCEPT !.issues = @ \o handled.issues,
                            !.set_vnames = @ \cup {vname},
                            !.field_mapping = DictSet(@, info.name, handled.value)]
           [] OTHER ->          \* no case of the match applies
                [acc EXCEPT !.issues = @ \o handled.issues,
                            !.set_vnames = @ \cup {vname}]

\* the loop body for an entry whose key is a field key
KnownEntry(b, acc, ctx, vname, vvalue, field_pointer, info) ==
    IF ctx.config.exclude_unset /\ info.name \in ctx.unset_names THEN acc
    ELSE IF ctx.config.exclude_default /\ info.default # Empty /\ vvalue = info.default
    THEN acc
    ELSE DepositField(b, acc, ctx.config, vname, info,
             LeafHandle(info.type_hint, vvalue, field_pointer,
                        ctx.included \/ PathMatches(ctx.config.include, field_pointer),
                        FALSE, ctx.config))

\* the loop body for one (vname, vvalue) of the input
LoopBody(cls, b, acc, ctx, vname, vvalue, field_pointer) ==
    IF ctx.config.exclude_none /\ vvalue = NoneV THEN acc
    ELSE IF PathMatches(ctx.config.exclude, field_pointer) THEN acc
    ELSE IF vname \notin FieldKeys(cls)
    THEN HandleExtra(acc, ctx.config, vname, vvalue, field_pointer)
    ELSE KnownEntry(b, acc, ctx, vname, vvalue, field_pointer, FieldInfo(cls, vname))

\* the loop over the items; acc carries issues, field_mapping, computed_mapping,
\* extras, set_vnames and an exception raised by a field handler
RECURSIVE ModelLoop(_, _, _, _, _)
ModelLoop(cls, b, items, acc, ctx) ==
    IF Len(items) = 0 \/ acc.raised # "none" THEN acc
    ELSE ModelLoop(cls, b, Tail(items),
                   LoopBody(cls, b, acc, ctx, Head(items)[1], Head(items)[2],
                            Join(ctx.pointer, Head(items)[1])),
                   ctx)

\* the type check made when validating; TRUE when handle returns the issue
ModelTypeRejected(cls, cvalue, config) ==
    LET mapping_like == cvalue.t = "dict"   \* has items()
    IN /\ config.validate
       /\ CASE config.source = "json" -> cvalue.t # "dict"
            [] config.source = "unstruct" ->
                    ~(config.coerce /\ mapping_like) /\ cvalue.t # "dict"
            [] config.source = "struct" ->
                    /\ ~(config.coerce /\ (mapping_like \/ is_struct_instance(cvalue)))
                    /\ ~(is_struct_instance(cvalue) /\ cvalue.cls = cls.name)
            [] OTHER -> FALSE

\* the groups checked after the loop, as issues
GroupIssues(groups, set_vnames, cvalue, pointer, kind) ==
    LET hit == IF kind = "dependent"
               THEN {g \in groups : g \cap set_vnames # {} /\
                                    Cardinality(g \cap set_vnames) # Cardinality(g)}
               ELSE {g \in groups : Cardinality(g \cap set_vnames) > 1}
        order == SetToSeq(hit)
    IN [k \in 1..Len(order) |->
            IF kind = "dependent"
            THEN DependentIssue(cvalue, pointer, order[k], order[k] \cap set_vnames)
            ELSE DisjointIssue(cvalue, pointer, order[k], order[k] \cap set_vnames)]

\* set_vnames.add(vname): the key as the input spelled it
MissingFields(b, config, set_vnames) ==
    IF config.source = "json" THEN b.required_aliases \ set_vnames
    ELSE b.required_names \ set_vnames

\* self.type_hint(**field_mapping), set_extras, then object.__setattr__ for
\* each computed override; built is the constructor's outcome
Materialize(acc, built) ==
    IF built.raised # "none" THEN built
    ELSE Ok([built.value EXCEPT
                !.extras = IF Len(acc.extras) > 0 THEN acc.extras ELSE @,
                !.f = [n \in DOMAIN @ |->
                          IF DictHas(acc.computed_mapping, n)
                          THEN DictGet(acc.computed_mapping, n) ELSE @[n]]],
            <<>>)

WithIssues(built, issues) ==
    IF built.raised # "none" THEN built ELSE Ok(built.value, issues)

\* the return statements at the end of handle
ModelReturn(cls, value, included, excluded, config, acc, missing_fields, issues) ==
    IF (included /\ ~excluded) \/ Len(acc.field_mapping) > 0
    THEN IF ~(config.convert \/ config.coerce) THEN Ok(value, issues)
         ELSE IF config.target \in {"json", "unstruct"}
         THEN Ok(DictV(acc.field_mapping), issues)
         ELSE IF missing_fields # {} THEN Ok(DictV(acc.field_mapping), issues)
         ELSE WithIssues(Materialize(acc, StructNew(cls, acc.field_mapping)), issues)
    ELSE Ok(Empty, issues)

MissingIssues(missing_order, pointer) ==
    [k \in 1..Len(missing_order) |-> MissingFieldIssue(missing_order[k], pointer)]

\* handle after the loop: the missing, dependent and disjoint checks
AfterLoop(cls, b, value, pointer, included, excluded, config, acc, missing_fields) ==
    IF acc.raised # "none" THEN Raise(acc.raised)
    ELSE ModelReturn(cls, value, included, excluded, config, acc, missing_fields,
            IF config.validate
            THEN acc.issues
                 \o MissingIssues(SetToSeq(missing_fields), pointer)
                 \o GroupIssues(IF config.source = "json" THEN b.dependent_groups_aliases
                                ELSE b.dependent_groups_names,
                                acc.set_vnames, value, pointer, "dependent")
                 \o GroupIssues(IF config.source = "json" THEN b.disjoint_groups_aliases
                                ELSE b.disjoint_groups_names,
                                acc.set_vnames, value, pointer, "disjoint")
            ELSE acc.issues)

CheckMissing(cls, b, value, pointer, included, excluded, config, acc) ==
    AfterLoop(cls, b, value, pointer, included, excluded, config, acc,
              IF config.validate /\ config.target = "struct"
              THEN MissingFields(b, config, acc.set_vnames)
              ELSE {})

\* ModelHandler.handle (ModelHandler.coerce returns the value as it is;
\* config.patches is Patches.empty)
ModelHandle(cls, b, value, pointer, included, excluded, config) ==
    IF ModelTypeRejected(cls, value, config)
    THEN Ok(value, <<IF config.source = "json"
                     THEN JsonTypeIssue(value, pointer, "object")
                     ELSE StructTypeIssue(value, pointer,
                              IF config.source = "unstruct" THEN "dict" ELSE cls.name)>>)
    ELSE IF value.t \notin {"dict", "struct"}
    THEN Raise("AttributeError")    \* neither items nor __iter__ on the value
    ELSE CheckMissing(cls, b, value, pointer, included, excluded, config,
            ModelLoop(cls, b, ItemsOf(cls, value),
                      [issues |-> <<>>, field_mapping |-> <<>>, computed_mapping |-> <<>>,
                       extras |-> <<>>, set_vnames |-> {}, raised |-> "none"],
                      [pointer |-> pointer, included |-> included, config |-> config,
                       unset_names |-> IF is_struct_instance(value)
                                       THEN get_unsetted(cls, value) ELSE {}]))

(***************************************************************************)
(* The number handler as a state machine.                                  *)
(***************************************************************************)
Limits == 0..MaxLimit
NumberConstraintUniverse ==
    {Value(c, l) : c \in ValueComparators, l \in Limits} \cup {Format("int32"), Format("int64")}

\* The bags a number handler can be constructed with: at most one constraint
\* per constraint_id (Constraints.append keeps one), in insertion order.
RECURSIVE BagsUpTo(_)
BagsUpTo(n) ==
    IF n = 0 THEN {<<>>}
    ELSE LET shorter == BagsUpTo(n - 1)
         IN shorter \cup
            {Append(b, c) : b \in {x \in shorter : Len(x) = n - 1},
                            c \in NumberConstraintUniverse}
NumberBags == {b \in BagsUpTo(MaxConstraints) :
                 Cardinality(BagIds(b)) = Len(b)}

NumberValues ==
    {IntV(i) : i \in -1..(MaxLimit + 1)}
    \cup {StrV(<<"1">>), StrV(<<"x">>), FloatV(1, FALSE), FloatV(0, TRUE), BoolV(TRUE), NoneV}

HandlerConfigs ==
    {[source |-> s, target |-> t, coerce |-> f.coerce, validate |-> f.validate,
      convert |-> f.convert] : s \in Formats, t \in {"json", "struct"}, f \in Flags}

\* the handler as constructed, and the arguments of the call to come
NumberInit ==
    /\ numberHandler \in {[constraints |-> b, validators |-> <<>>, prebuilt |-> FALSE] :
                            b \in NumberBags}
    /\ \E value \in NumberValues, config \in HandlerConfigs, included \in BOOLEAN :
          numberCall = [kind |-> "pending", value |-> value, config |-> config,
                        included |-> included, excluded |-> FALSE, ret |-> Idle]
    /\ unionHandler = Idle /\ unionCall = Idle
    /\ modelHandler = Idle /\ modelCall = Idle
    /\ codec = Idle /\ codecCall = Idle
    /\ OthersIdle

\* handler.handle(...), the first time and again: the prebuild descriptor
\* runs build() on the first dispatch, then the call goes to
\* NumberLikeHandler.handle.
NumberHandle ==
    /\ numberCall.kind \in {"pending", "handle"}
    /\ LET validators == IF numberHandler.prebuilt THEN numberHandler.validators
                         ELSE NumberBuild(numberHandler.constraints)
       IN /\ numberHandler' = [numberHandler EXCEPT !.validators = validators,
                                                    !.prebuilt = TRUE]
          /\ numberCall' = [numberCall EXCEPT
                              !.kind = "handle",
                              !.ret = IntHandle(validators, numberCall.value, RootPointer,
                                                numberCall.included, numberCall.excluded,
                                                numberCall.config)]
          /\ UNCHANGED <<unionVars, modelVars, codecVars, othersVars>>

NumberNext == NumberHandle
SpecNumber == NumberInit /\ [][NumberNext]_vars

\* v satisfies a Value constraint of the handler's bag
Satisfies(v, c) ==
    CASE c.comparator = "eq" -> v = c.value
      [] c.comparator = "gt" -> v > c.value
      [] c.comparator = "ge" -> v >= c.value
      [] c.comparator = "le" -> v <= c.value
      [] c.comparator = "lt" -> v < c.value
ValueConstraintsOf(bag) == {bag[k] : k \in {j \in 1..Len(bag) : bag[j].constraint_type = "value"}}
IssuesOfType(ret, issue_type) ==
    {k \in 1..Len(ret.issues) : ret.issues[k].issue_type = issue_type}
ValidatedInt == /\ numberCall.kind = "handle"
                /\ numberCall.value.t = "int"
                /\ numberCall.config.validate
                /\ numberCall.included

\* C10: for every set of Value constraints on a number handler, build yields at
\* most one lower-bound and at most one upper-bound check, and the built handler
\* reports no number issue for v iff v satisfies every constraint of the set.
C10_ConsolidationEquivalent ==
    ValidatedInt =>
        /\ Cardinality({k \in 1..Len(numberHandler.validators) :
                numberHandler.validators[k].fn \in {"_validate_ge", "_validate_gt"}}) <= 1
        /\ Cardinality({k \in 1..Len(numberHandler.validators) :
                numberHandler.validators[k].fn \in {"_validate_le", "_validate_lt"}}) <= 1
        /\ numberCall.ret.raised = "none"
        /\ (IssuesOfType(numberCall.ret, "number") = {}
              <=> \A c \in ValueConstraintsOf(numberHandler.constraints) :
                      Satisfies(numberCall.value.i, c))

(***************************************************************************)
(* The record handler as a state machine.                                  *)
(***************************************************************************)
NameA == <<"a">>
NameBC == <<"b", "_", "c">>      \* alias bC
NameD == <<"d">>
AliasBC == <<"b", "C">>
KeyX == <<"x">>                  \* no field of the record classes below

FieldNames == {NameA, NameBC, NameD}

\* class T: three int fields, those of required without default, the others
\* defaulting to 0
RecordT(required, constraints) ==
    StructClass("T",
        <<Field(NameA, "int", IF NameA \in required THEN Empty ELSE IntV(0)),
          Field(NameBC, "int", IF NameBC \in required THEN Empty ELSE IntV(0)),
          Field(NameD, "int", IF NameD \in required THEN Empty ELSE IntV(0))>>,
        constraints)

RequiredClasses == {RecordT(R, <<>>) : R \in SUBSET {NameA, NameBC}}

FieldGroups == {g \in SUBSET FieldNames : Cardinality(g) >= 2}
GroupConstraints == {Dependent(g) : g \in FieldGroups} \cup {Disjoint(g) : g \in FieldGroups}
\* one or two group constraints in the decorator
GroupClasses == {RecordT({}, <<c>>) : c \in GroupConstraints}
                \cup {RecordT({}, <<c1, c2>>) : c1 \in GroupConstraints, c2 \in GroupConstraints}

\* the dicts with keys taken in this order, each key left out or set to one of
\* the values given for it
RECURSIVE DictsOver(_, _)
DictsOver(keys, choices) ==
    IF Len(keys) = 0 THEN {<<>>}
    ELSE LET rest == DictsOver(Tail(keys), choices)
         IN rest \cup {<<<<Head(keys), v>>>> \o m : v \in choices[Head(keys)], m \in rest}

ModelKeys == <<NameA, NameBC, AliasBC, NameD, KeyX>>
ModelDicts ==
    {DictV(m) : m \in DictsOver(ModelKeys,
        [k \in SeqToSet(ModelKeys) |->
            CASE k = KeyX -> {IntV(1), NoneV}
              [] k = NameD -> {IntV(0)}
              [] OTHER -> {IntV(1)}])}
GroupDicts ==
    {DictV(m) : m \in DictsOver(<<NameA, NameBC, AliasBC, NameD>>,
        [k \in {NameA, NameBC, AliasBC, NameD} |-> {IntV(1)}])}

\* the instances of cls made by passing some of its fields, each as 1
InstancesOf(cls) ==
    {StructNew(cls, m).value :
        m \in {x \in DictsOver(get_names(cls), [k \in SeqToSet(get_names(cls)) |-> {IntV(1)}]) :
                 get_required(cls) \subseteq DictKeys(x)}}

Config(source, target, flags, extras_mode) ==
    [source |-> source, target |-> target,
     coerce |-> flags.coerce, validate |-> flags.validate, convert |-> flags.convert,
     include |-> PathEverything, exclude |-> PathNothing,
     exclude_none |-> FALSE, exclude_unset |-> FALSE, exclude_default |-> FALSE,
     extras_mode |-> extras_mode]
ExtrasModes == {"forbid", "drop", "roundtrip"}

PlainConfigs == {Config(s, t, f, e) : s \in Formats, t \in Formats, f \in Flags, e \in ExtrasModes}
ValidateConvert == [coerce |-> FALSE, validate |-> TRUE, convert |-> TRUE]
\* one output filter switched on
FilterConfigs ==
    LET base == {Config(s, t, ValidateConvert, e) : s \in Formats, t \in Formats, e \in ExtrasModes}
    IN {[c EXCEPT !.exclude_none = TRUE] : c \in base}
       \cup {[c EXCEPT !.exclude = PathExact(Join(RootPointer, KeyX))] : c \in base}
       \cup {[c EXCEPT !.exclude = PathExact(Join(RootPointer, NameA))] : c \in base}
       \cup {[c EXCEPT !.exclude_unset = TRUE] : c \in base}
       \cup {[c EXCEPT !.exclude_default = TRUE] : c \in base}
ModelConfigs == PlainConfigs \cup FilterConfigs
GroupConfigs ==
    {Config(s, t, f, "forbid") : s \in Formats, t \in {"json", "struct"},
        f \in {x \in Flags : x.validate /\ ~x.coerce}}

\* the caller's arguments are fixed at the start; included is the flag the
\* parent handler passes down
ModelInitOver(classes, dicts, configs) ==
    /\ modelHandler \in {[type_hint |-> cls, constraints |-> <<>>, built |-> Idle,
                          prebuilt |-> FALSE] : cls \in classes}
    /\ \E value \in dicts \cup InstancesOf(modelHandler.type_hint) \cup {IntV(1)},
          config \in configs, included \in BOOLEAN :
            modelCall = [kind |-> "pending", value |-> value, config |-> config,
                         included |-> included, excluded |-> FALSE, ret |-> Idle]
    /\ numberHandler = Idle /\ numberCall = Idle
    /\ unionHandler = Idle /\ unionCall = Idle
    /\ codec = Idle /\ codecCall = Idle
    /\ OthersIdle

\* handler.handle(value, pointer, included, excluded, config) at the root
\* pointer, the first time and again; build() runs on the first dispatch and,
\* when it raises, the handler stays unbuilt and the call raises.
ModelHandleCall ==
    /\ modelCall.kind \in {"pending", "handle"}
    /\ LET cls == modelHandler.type_hint
           b == IF modelHandler.prebuilt THEN modelHandler.built
                ELSE ModelBuild(cls, modelHandler.constraints)
           ret == IF b.raised # "none" THEN Raise(b.raised)
                  ELSE ModelHandle(cls, b, modelCall.value, RootPointer,
                                   modelCall.included, modelCall.excluded, modelCall.config)
       IN /\ modelHandler' = IF b.raised # "none" THEN modelHandler
                             ELSE [modelHandler EXCEPT !.built = b, !.prebuilt = TRUE]
          /\ modelCall' = [modelCall EXCEPT !.kind = "handle", !.ret = ret]
          /\ UNCHANGED <<numberVars, unionVars, codecVars, othersVars>>

ModelInit == ModelInitOver(RequiredClasses, ModelDicts, ModelConfigs)
ModelNext == ModelHandleCall
SpecModel == ModelInit /\ [][ModelNext]_vars

GroupsInit == ModelInitOver(GroupClasses, GroupDicts, GroupConfigs)
GroupsNext == ModelHandleCall
SpecModelGroups == GroupsInit /\ [][GroupsNext]_vars

(***************************************************************************)
(* Claims on the record handler.                                           *)
(***************************************************************************)
\* the call returned, on an input the type check lets through
ModelHandled ==
    /\ modelCall.kind = "handle"
    /\ modelCall.ret.raised = "none"
    /\ modelCall.value.t \in {"dict", "struct"}
    /\ ~ModelTypeRejected(modelHandler.type_hint, modelCall.value, modelCall.config)
ModelIssues(issue_type) ==
    {k \in 1..Len(modelCall.ret.issues) : modelCall.ret.issues[k].issue_type = issue_type}
\* the fields the input provides, under either spelling the lookup accepts
ProvidedNames ==
    IF modelCall.value.t = "struct" THEN SeqToSet(get_names(modelHandler.type_hint))
    ELSE {n \in SeqToSet(get_names(modelHandler.type_hint)) :
            DictHas(modelCall.value.m, n) \/ DictHas(modelCall.value.m, get_alias(n))}
\* an issue's field keys read back as field names
NamesOfKeys(keys) == {FieldInfo(modelHandler.type_hint, k).name : k \in keys}
\* every key of the input is spelled as the source shape spells it
SourceSpelled ==
    \/ modelCall.value.t = "struct"
    \/ IF modelCall.config.source = "json" THEN ~DictHas(modelCall.value.m, NameBC)
       ELSE ~DictHas(modelCall.value.m, AliasBC)
NoFilter == modelCall.config \in PlainConfigs

\* C4: with validate and target struct, each required field the input does
\* not provide (under the name or the alias) gets exactly one missing_field
\* issue, and no other field gets one.
C4_MissingFieldPerRequired ==
    (ModelHandled /\ NoFilter /\ modelCall.config.validate
        /\ modelCall.config.target = "struct") =>
        LET absent == get_required(modelHandler.type_hint) \ ProvidedNames
            missing == ModelIssues("missing_field")
        IN /\ \A r \in absent :
                Cardinality({k \in missing :
                    modelCall.ret.issues[k].value \in {r, get_alias(r)}}) = 1
           /\ \A k \in missing :
                \E r \in absent : modelCall.ret.issues[k].value \in {r, get_alias(r)}

\* C7: a record declaring the one dependent group G, handled with validate:
\* exactly one dependent issue, with group G, given S and missing G \ S, when
\* the fields S of G present in the input are a proper non-empty subset of G,
\* and no dependent issue otherwise.
C7_DependentGroup ==
    (ModelHandled /\ modelCall.config.validate
        /\ Len(modelHandler.type_hint.declared) = 1
        /\ modelHandler.type_hint.declared[1].constraint_type = "dependent") =>
        LET G == modelHandler.type_hint.declared[1].field_names
            S == G \cap ProvidedNames
            dep == ModelIssues("dependent")
        IN IF S # {} /\ S # G
           THEN /\ Cardinality(dep) = 1
                /\ \A k \in dep :
                    /\ NamesOfKeys(modelCall.ret.issues[k].dependent) = G
                    /\ NamesOfKeys(modelCall.ret.issues[k].setted) = S
                    /\ NamesOfKeys(modelCall.ret.issues[k].missing) = G \ S
           ELSE dep = {}

\* C8: a record declaring only disjoint groups, handled with validate, the
\* input spelled as its source shape spells it: every declared group with two
\* or more fields set gets a disjoint issue, and there is no disjoint issue
\* when every declared group has at most one field set.
C8_EveryDisjointGroup ==
    (ModelHandled /\ SourceSpelled /\ modelCall.config.validate
        /\ \A k \in 1..Len(modelHandler.type_hint.declared) :
             modelHandler.type_hint.declared[k].constraint_type = "disjoint") =>
        LET D == {modelHandler.type_hint.declared[k].field_names :
                    k \in 1..Len(modelHandler.type_hint.declared)}
            dis == ModelIssues("disjoint")
        IN /\ \A Di \in D : Cardinality(Di \cap ProvidedNames) >= 2 =>
                \E k \in dis : NamesOfKeys(modelCall.ret.issues[k].disjoint) = Di
           /\ (\A Di \in D : Cardinality(Di \cap ProvidedNames) <= 1) => dis = {}

\* the input entries whose key is no field name and no alias
ExtraKeys ==
    IF modelCall.value.t = "dict"
    THEN DictKeys(modelCall.value.m) \ FieldKeys(modelHandler.type_hint)
    ELSE {}
ExtraIssuesFor(key) ==
    {k \in ModelIssues("extra_field") : modelCall.ret.issues[k].extra = key}
InOutputMapping(key) ==
    /\ modelCall.ret.value.t = "dict"
    /\ DictHas(modelCall.ret.value.m, key)
    /\ DictGet(modelCall.ret.value.m, key) = DictGet(modelCall.value.m, key)
InOutputExtras(key) ==
    /\ modelCall.ret.value.t = "struct"
    /\ DictHas(modelCall.ret.value.extras, key)
    /\ DictGet(modelCall.ret.value.extras, key) = DictGet(modelCall.value.m, key)
InOutput(key) ==
    \/ modelCall.ret.value.t = "dict" /\ DictHas(modelCall.ret.value.m, key)
    \/ modelCall.ret.value.t = "struct" /\ DictHas(modelCall.ret.value.extras, key)
\* exclude_none or the exclude path skips the entry before the lookup
FilteredOut(key) ==
    \/ modelCall.config.exclude_none /\ DictGet(modelCall.value.m, key) = NoneV
    \/ PathMatches(modelCall.config.exclude, Join(RootPointer, key))

Leaf(name) == [hint |-> "leaf", name |-> name]
NoneType == [hint |-> "NoneType"]
LeafTypes == {Leaf("int"), Leaf("str"), Leaf("bool")}

MissingDiscriminatorIssue(value, pointer, discriminator) ==
    [issue_type |-> "missing_discriminator", value |-> value, pointer |-> pointer,
     discriminator |-> discriminator]
InvalidDiscriminatorIssue(value, pointer, discriminator) ==
    [issue_type |-> "invalid_discriminator", value |-> value, pointer |-> pointer,
     discriminator |-> discriminator]

\* codec.get_type_handler(type_hint): a new, unbuilt handler of the class
\* registered for the hint
GetTypeHandler(type_hint) ==
    IF type_hint \in LeafTypes
    THEN [handler |-> "leaf", type_hint |-> type_hint, prebuilt |-> FALSE]
    ELSE [handler |-> "model", type_hint |-> type_hint, prebuilt |-> FALSE]

\* a record arm's handle once its build b is known
ModelArmHandle(type_handler, b, call) ==
    IF b.raised # "none"
    THEN [ret |-> Raise(b.raised), type_handler |-> type_handler]
    ELSE [ret |-> ModelHandle(type_handler.type_hint, b, call.value, call.pointer,
                              call.included, call.excluded, call.config),
          type_handler |-> [type_handler EXCEPT !.prebuilt = TRUE]]

\* type_handler.handle(...) of an arm: the arm's own build runs on its first
\* dispatch.  Gives the result and the handler afterwards.
ArmHandle(type_handler, call) ==
    IF type_handler.handler = "leaf"
    THEN [ret |-> LeafHandle(type_handler.type_hint.name, call.value, call.pointer,
                             call.included, call.excluded, call.config),
          type_handler |-> [type_handler EXCEPT !.prebuilt = TRUE]]
    ELSE ModelArmHandle(type_handler, ModelBuild(type_handler.type_hint, <<>>), call)

\* getattr(type_hint, disc_name, None), then its .default when it has one:
\* the default of the class's field of that name, None without such a field
DiscValueOf(cls, disc_name) ==
    IF disc_name \in SeqToSet(get_names(cls)) /\ FieldNamed(cls, disc_name).default # Empty
    THEN FieldNamed(cls, disc_name).default
    ELSE NoneV

\* the loop of build filling _disc_type_hints, from args[k..]
RECURSIVE DiscTypeHints(_, _, _)
DiscTypeHints(args, disc_name, acc) ==
    IF acc.raised # "none" \/ Len(args) = 0 THEN acc
    ELSE LET disc_value == DiscValueOf(Head(args), disc_name)
         IN DiscTypeHints(Tail(args), disc_name,
                IF disc_value = NoneV
                THEN [acc EXCEPT !.raised = "DiscriminatorFieldMissingError"]
                ELSE IF DictHas(acc.hints, disc_value)
                THEN [acc EXCEPT !.raised = "DuplicateDiscriminatorError"]
                ELSE [acc EXCEPT !.hints = DictSet(@, disc_value, Head(args))])

Unbuilt(shape, type_hint, constraints) ==
    [shape |-> shape,       \* how the union was written; build does not read it
     type_hint |-> type_hint, constraints |-> constraints, prebuilt |-> FALSE,
     strategy |-> "unbuilt", disc_name |-> NoneV, disc_alias |-> NoneV,
     disc_type_hints |-> <<>>, disc_type_handlers |-> <<>>,
     optional_type_handler |-> NoneV, type_hints |-> <<>>, type_handlers |-> <<>>]

\* UnionHandler.build; type_hint is the tuple of the union's arms
UnionBuild(h) ==
    LET discriminator == BagGet(h.constraints, <<"discriminator">>)
        args == h.type_hint
    IN IF discriminator # NoneV
       THEN LET filled == DiscTypeHints(args, discriminator.field_name,
                                        [hints |-> <<>>, raised |-> "none"])
            IN IF filled.raised # "none" THEN [raised |-> filled.raised, h |-> h]
               ELSE [raised |-> "none",
                     h |-> [h EXCEPT !.strategy = "discriminated",
                                     !.disc_name = discriminator.field_name,
                                     !.disc_alias = get_alias(discriminator.field_name),
                                     !.disc_type_hints = filled.hints,
                                     !.prebuilt = TRUE]]
       ELSE IF Len(args) = 2 /\ (args[1] = NoneType \/ args[2] = NoneType)
       THEN [raised |-> "none",
             h |-> [h EXCEPT !.strategy = "optional",
                             !.optional_type_handler =
                                 GetTypeHandler(IF args[1] = NoneType THEN args[2] ELSE args[1]),
                             !.prebuilt = TRUE]]
       ELSE [raised |-> "none",
             h |-> [h EXCEPT !.strategy = "left_to_right",
                             !.type_hints = args,
                             !.type_handlers = [k \in 1..Len(args) |-> NoneV],
                             !.prebuilt = TRUE]]

\* deque.popleft
popright(d) == [item |-> d[Len(d)], rest |-> SubSeq(d, 1, Len(d) - 1)]
popleft(d) == [item |-> Head(d), rest |-> Tail(d)]

\* the loop body at position i once the handler there exists: handle, then
\* return on zero issues or go on to position i + 1.  consulted lists the
\* positions whose handler was called.
RECURSIVE LeftToRightLoop(_, _, _, _, _)
LeftToRightArm(h, i, issues, consulted, call, arm) ==
    IF arm.ret.raised # "none" \/ Len(arm.ret.issues) = 0
    THEN [h |-> [h EXCEPT !.type_handlers[i] = arm.type_handler],
          ret |-> arm.ret, consulted |-> Append(consulted, i)]
    ELSE LeftToRightLoop([h EXCEPT !.type_handlers[i] = arm.type_handler], i + 1,
                         issues \o arm.ret.issues, Append(consulted, i), call)

\* the handler at position i is created from the next hint of the deque
LeftToRightCreate(h, i, popped) ==
    [h EXCEPT !.type_hints = popped.rest,
              !.type_handlers[i] = GetTypeHandler(popped.item)]

LeftToRightAt(h, i, issues, consulted, call) ==
    LeftToRightArm(h, i, issues, consulted, call, ArmHandle(h.type_handlers[i], call))

\* UnionHandler._left_to_right_handle from position i on
LeftToRightLoop(h, i, issues, consulted, call) ==
    IF i > Len(h.type_handlers)
    THEN [h |-> h, ret |-> Ok(call.value, issues), consulted |-> consulted]
    ELSE IF h.type_handlers[i] # NoneV
    THEN LeftToRightAt(h, i, issues, consulted, call)
    ELSE IF Len(h.type_hints) = 0
    THEN [h |-> h, ret |-> Ok(call.value, issues), consulted |-> consulted]   \* break
    ELSE LeftToRightAt(LeftToRightCreate(h, i, popleft(h.type_hints)), i, issues,
                       consulted, call)

left_to_right_handle(h, call) == LeftToRightLoop(h, 1, <<>>, <<>>, call)

OptionalArm(h, arm) ==
    [h |-> [h EXCEPT !.optional_type_handler = arm.type_handler],
     ret |-> arm.ret, consulted |-> <<1>>]

\* UnionHandler._optional_handle
optional_handle(h, call) ==
    IF call.value = NoneV
    THEN [h |-> h, ret |-> Ok(call.value, <<>>), consulted |-> <<>>]
    ELSE OptionalArm(h, ArmHandle(h.optional_type_handler, call))

\* the first try block: value[alias], value[name] or getattr(value, name).
\* found is FALSE on KeyError and AttributeError; another exception leaves.
DiscKey(h, config) == IF config.source = "json" THEN h.disc_alias ELSE h.disc_name
DiscLookup(h, value, config) ==
    CASE config.source \in {"json", "unstruct"} ->
            IF value.t # "dict" THEN [raised |-> "TypeError", found |-> FALSE]
            ELSE IF DictHas(value.m, DiscKey(h, config))
            THEN [raised |-> "none", found |-> TRUE,
                  disc_value |-> DictGet(value.m, DiscKey(h, config))]
            ELSE [raised |-> "none", found |-> FALSE]
      [] config.source = "struct" ->
            IF value.t = "struct" /\ h.disc_name \in DOMAIN value.f
            THEN [raised |-> "none", found |-> TRUE, disc_value |-> value.f[h.disc_name]]
            ELSE [raised |-> "none", found |-> FALSE]
      [] OTHER -> [raised |-> "UnboundLocalError", found |-> FALSE]

\* raise <issue>: the issue classes are records, not exceptions, so the raise
\* statement itself fails
RaiseIssue(issue) == Raise("TypeError")

DiscriminatedArm(h, disc_value, arm) ==
    [h |-> [h EXCEPT !.disc_type_handlers = DictSet(@, disc_value, arm.type_handler)],
     ret |-> arm.ret, consulted |-> <<disc_value>>]

DiscriminatedAt(h, disc_value, call) ==
    DiscriminatedArm(h, disc_value,
                     ArmHandle(DictGet(h.disc_type_handlers, disc_value), call))

\* _disc_type_hints.pop(disc_value), and the handler created for it is stored
DiscriminatedCreate(h, disc_value) ==
    [h EXCEPT !.disc_type_hints = SelectSeq(@, LAMBDA e : e[1] # disc_value),
              !.disc_type_handlers =
                  DictSet(@, disc_value,
                          GetTypeHandler(DictGet(h.disc_type_hints, disc_value)))]

\* _discriminated_handle after the first try block
DiscriminatedLooked(h, call, looked) ==
    IF looked.raised # "none"
    THEN [h |-> h, ret |-> Raise(looked.raised), consulted |-> <<>>]
    ELSE IF ~looked.found
    THEN [h |-> h, consulted |-> <<>>,
          ret |-> RaiseIssue(MissingDiscriminatorIssue(call.value, call.pointer,
                                                       DiscKey(h, call.config)))]
    ELSE IF DictHas(h.disc_type_handlers, looked.disc_value)
    THEN DiscriminatedAt(h, looked.disc_value, call)
    ELSE IF ~DictHas(h.disc_type_hints, looked.disc_value)
    THEN [h |-> h, consulted |-> <<>>,
          ret |-> RaiseIssue(InvalidDiscriminatorIssue(call.value, call.pointer,
                                                       DiscKey(h, call.config)))]
    ELSE DiscriminatedAt(DiscriminatedCreate(h, looked.disc_value), looked.disc_value, call)

\* UnionHandler._discriminated_handle
discriminated_handle(h, call) ==
    DiscriminatedLooked(h, call, DiscLookup(h, call.value, call.config))

\* UnionHandler.handle: self._handle as build chose it
UnionHandleBuilt(h, call) ==
    CASE h.strategy = "discriminated" -> discriminated_handle(h, call)
      [] h.strategy = "optional" -> optional_handle(h, call)
      [] h.strategy = "left_to_right" -> left_to_right_handle(h, call)

\* handle behind the prebuild descriptor: b is build's outcome
UnionHandle(b, call) ==
    IF b.raised # "none"
    THEN [h |-> b.h, ret |-> Raise(b.raised), consulted |-> <<>>]
    ELSE UnionHandleBuilt(b.h, call)

(***************************************************************************)
(* The union handler as a state machine.                                   *)
(***************************************************************************)
NameKind == <<"k", "i", "n", "d">>
NameX == <<"x">>
NameY == <<"y">>
\* the arms of the discriminated unions: kind is the constant field
ArmA == StructClass("A", <<Field(NameKind, "str", StrV(<<"a">>)),
                           Field(NameX, "int", IntV(0))>>, <<>>)
ArmB == StructClass("B", <<Field(NameKind, "str", StrV(<<"b">>)),
                           Field(NameY, "int", Empty)>>, <<>>)
\* a copy of A that kept A's constant, and a class without the field
ArmA2 == StructClass("A2", <<Field(NameKind, "str", StrV(<<"a">>))>>, <<>>)
ArmN == StructClass("N", <<Field(NameX, "int", IntV(0))>>, <<>>)

\* sequences of distinct leaf types, n..MaxArms long
RECURSIVE ArmsUpTo(_)
ArmsUpTo(n) ==
    IF n = 0 THEN {<<>>}
    ELSE LET shorter == ArmsUpTo(n - 1)
         IN shorter \cup {Append(a, t) : a \in {x \in shorter : Len(x) = n - 1},
                                         t \in LeafTypes}
LeftToRightUnions ==
    {a \in ArmsUpTo(MaxArms) : Len(a) >= 2 /\ Cardinality(SeqToSet(a)) = Len(a)}
OptionalUnions == {<<t, NoneType>> : t \in LeafTypes} \cup {<<NoneType, t>> : t \in LeafTypes}
DiscriminatedUnions == {<<ArmA, ArmB>>, <<ArmB, ArmA>>, <<ArmA, ArmA2>>, <<ArmA, ArmN>>}

UnionFlags == {f \in Flags : f.validate /\ (f.coerce => f.convert)}
LeafConfigs == {Config(s, t, f, "forbid") : s \in {"json", "struct"}, t \in {"json", "struct"},
                                            f \in UnionFlags}
DiscriminatedConfigs ==
    {Config(s, t, f, "forbid") : s \in Formats, t \in {"json", "struct"},
                                 f \in {x \in UnionFlags : ~x.coerce}}
LeafValues == {IntV(1), StrV(<<"x">>), StrV(<<"1">>), BoolV(TRUE), NoneV}
\* mappings with kind left out, declared or undeclared, instances of the arms
\* and a value that is no mapping
DiscriminatedValues ==
    {DictV(m) : m \in DictsOver(<<NameKind, NameY>>,
        [k \in {NameKind, NameY} |->
            IF k = NameKind THEN {StrV(<<"a">>), StrV(<<"b">>), StrV(<<"c">>)}
            ELSE {IntV(1)}])}
    \cup {StructNew(ArmA, <<>>).value, StructNew(ArmB, <<<<NameY, IntV(1)>>>>).value, IntV(1)}

UnionInit ==
    /\ unionHandler \in
          {Unbuilt("arms", a, <<>>) : a \in LeftToRightUnions}
          \cup {Unbuilt("optional", a, <<>>) : a \in OptionalUnions}
          \cup {Unbuilt("tagged", a, <<Discriminator(NameKind)>>) : a \in DiscriminatedUnions}
    /\ unionCall = Idle
    /\ numberHandler = Idle /\ numberCall = Idle
    /\ modelHandler = Idle /\ modelCall = Idle
    /\ codec = Idle /\ codecCall = Idle
    /\ OthersIdle

UnionCallRecord(call, done) ==
    [kind |-> "handle", value |-> call.value, config |-> call.config,
     included |-> call.included, excluded |-> call.excluded,
     ret |-> done.ret, consulted |-> done.consulted]

UnionDone(call, done) ==
    /\ unionHandler' = done.h
    /\ unionCall' = UnionCallRecord(call, done)
    /\ UNCHANGED <<numberVars, modelVars, codecVars, othersVars>>

\* handler.handle(value, pointer, included, excluded, config): build() on the
\* first dispatch (the handler stays unbuilt when build raises), then _handle
UnionHandleOver(shape, values, configs, included_choices) ==
    /\ unionHandler.shape = shape
    /\ \E value \in values, config \in configs, included \in included_choices :
        UnionDone([value |-> value, pointer |-> RootPointer, included |-> included,
                   excluded |-> FALSE, config |-> config],
                  UnionHandle(IF unionHandler.prebuilt
                              THEN [raised |-> "none", h |-> unionHandler]
                              ELSE UnionBuild(unionHandler),
                              [value |-> value, pointer |-> RootPointer,
                               included |-> included, excluded |-> FALSE,
                               config |-> config]))

LeftToRightHandle == UnionHandleOver("arms", LeafValues, LeafConfigs, BOOLEAN)
OptionalHandle == UnionHandleOver("optional", LeafValues, LeafConfigs, BOOLEAN)
DiscriminatedHandle == UnionHandleOver("tagged", DiscriminatedValues, DiscriminatedConfigs, {TRUE})

UnionNext == LeftToRightHandle \/ OptionalHandle \/ DiscriminatedHandle
SpecUnion == UnionInit /\ [][UnionNext]_vars

(***************************************************************************)
(* Claims on the union handler.                                            *)
(***************************************************************************)
UnionCalled(strategy) ==
    /\ unionCall.kind = "handle"
    /\ unionHandler.prebuilt
    /\ unionHandler.strategy = strategy
UnionIssues(issue_type) ==
    {k \in 1..Len(unionCall.ret.issues) : unionCall.ret.issues[k].issue_type = issue_type}
\* the constants the union's arms declare
DeclaredConstants ==
    {DiscValueOf(unionHandler.type_hint[k], unionHandler.disc_name) :
        k \in 1..Len(unionHandler.type_hint)}
\* what the input carries in the discriminator field, None without it
InputDiscValue ==
    LET v == unionCall.value
        key == IF unionCall.config.source = "json" THEN unionHandler.disc_alias
               ELSE unionHandler.disc_name
    IN IF v.t = "dict" /\ unionCall.config.source # "struct" /\ DictHas(v.m, key)
       THEN DictGet(v.m, key)
       ELSE IF v.t = "struct" /\ unionCall.config.source = "struct"
                /\ unionHandler.disc_name \in DOMAIN v.f
       THEN v.f[unionHandler.disc_name]
       ELSE NoneV
ArmOfConstant(c) ==
    unionHandler.type_hint[CHOOSE k \in 1..Len(unionHandler.type_hint) :
        DiscValueOf(unionHandler.type_hint[k], unionHandler.disc_name) = c]

\* C5: after every call on a discriminated union, first or later: a declared
\* constant in the discriminator field gives the result of that constant's
\* arm; an undeclared value returns an invalid_discriminator issue; a missing
\* field returns a missing_discriminator issue; handle does not raise there.
C5_DiscriminatedDispatch ==
    (UnionCalled("discriminated") /\ unionCall.value.t \in {"dict", "struct"}) =>
        IF InputDiscValue = NoneV
        THEN unionCall.ret.raised = "none" /\ UnionIssues("missing_discriminator") # {}
        ELSE IF InputDiscValue \notin DeclaredConstants
        THEN unionCall.ret.raised = "none" /\ UnionIssues("invalid_discriminator") # {}
        ELSE LET cls == ArmOfConstant(InputDiscValue)
             IN unionCall.ret =
                    ModelHandle(cls, ModelBuild(cls, <<>>), unionCall.value, RootPointer,
                                unionCall.included, unionCall.excluded, unionCall.config)

\* the result of arm i alone on the call's input
ArmResult(i) ==
    LeafHandle(unionHandler.type_hint[i].name, unionCall.value, RootPointer,
               unionCall.included, unionCall.excluded, unionCall.config)
RECURSIVE ConcatIssues(_)
ConcatIssues(n) == IF n = 0 THEN <<>> ELSE ConcatIssues(n - 1) \o ArmResult(n).issues

\* C6: after every call on a left-to-right union with arms T1..Tn, first or
\* later: the result is that of the lowest-index arm with zero issues and no
\* arm after it was consulted; without such an arm the result carries the
\* issues of all n arms; the handler stored at position i is the one for Ti.
C6_LeftToRight ==
    UnionCalled("left_to_right") =>
        LET n == Len(unionHandler.type_hint)
            winners == {i \in 1..n : Len(ArmResult(i).issues) = 0}
        IN /\ \A i \in 1..n :
                unionHandler.type_handlers[i] # NoneV =>
                    unionHandler.type_handlers[i].type_hint = unionHandler.type_hint[i]
           /\ IF winners # {}
              THEN LET first == CHOOSE i \in winners : \A j \in winners : i <= j
                   IN /\ unionCall.ret = ArmResult(first)
                      /\ unionCall.consulted = [k \in 1..first |-> k]
              ELSE /\ unionCall.ret = Ok(unionCall.value, ConcatIssues(n))
                   /\ unionCall.consulted = [k \in 1..n |-> k]

\* a later call that goes past the arms earlier calls created: the second arm
\* wins after the first call stopped at the first
C6_Witness ==
    /\ UnionCalled("left_to_right")
    /\ Len(unionHandler.type_hint) = MaxArms
    /\ unionCall.consulted = <<1, 2, 3>>
    /\ Len(unionCall.ret.issues) = 0
    /\ \A i \in 1..3 : unionHandler.type_handlers[i] # NoneV

(***************************************************************************)
(* JSON text and the serializers  (serializers/orjson.py, serializers/json.py) *)
(***************************************************************************)
\* JSON text is a sequence of tokens; str and bytes carry the same text
JsonStr(text) == [t |-> "jsonstr", text |-> text]
JsonBytes(text) == [t |-> "jsonbytes", text |-> text]
Punct(c) == [tok |-> c]
IsJsonScalar(v) == v.t \in {"int", "str", "bool", "none"}
ScalarToken(v) ==
    CASE v.t = "int" -> [tok |-> "number", i |-> v.i]
      [] v.t = "str" -> [tok |-> "string", s |-> v.s]
      [] v.t = "bool" -> [tok |-> IF v.b THEN "true" ELSE "false"]
      [] v.t = "none" -> [tok |-> "null"]
IsScalarToken(tk) == tk.tok \in {"number", "string", "true", "false", "null"}
ScalarOfToken(tk) ==
    CASE tk.tok = "number" -> IntV(tk.i)
      [] tk.tok = "string" -> StrV(tk.s)
      [] tk.tok = "true" -> BoolV(TRUE)
      [] tk.tok = "false" -> BoolV(FALSE)
      [] tk.tok = "null" -> NoneV

\* what dumps serializes: scalars and dicts of scalars under str keys; a class
\* instance or the Empty sentinel is a TypeError
Serializable(v) ==
    \/ IsJsonScalar(v)
    \/ v.t = "dict" /\ \A k \in 1..Len(v.m) : IsJsonScalar(v.m[k][2])

RECURSIVE MemberTokens(_)
MemberTokens(m) ==
    IF Len(m) = 0 THEN <<>>
    ELSE <<[tok |-> "string", s |-> Head(m)[1]], Punct(":"), ScalarToken(Head(m)[2])>>
         \o (IF Len(m) > 1 THEN <<Punct(",")>> ELSE <<>>)
         \o MemberTokens(Tail(m))
dumps(v) ==
    IF v.t = "dict" THEN <<Punct("{")>> \o MemberTokens(v.m) \o <<Punct("}")>>
    ELSE <<ScalarToken(v)>>

\* the members between the braces; a repeated key keeps the last value
RECURSIVE ParseMembers(_, _)
ParseMembers(text, m) ==
    IF Len(text) < 3 \/ text[1].tok # "string" \/ text[2] # Punct(":")
       \/ ~IsScalarToken(text[3])
    THEN [ok |-> FALSE]
    ELSE IF Len(text) = 3
    THEN [ok |-> TRUE, m |-> DictSet(m, text[1].s, ScalarOfToken(text[3]))]
    ELSE IF text[4] # Punct(",") THEN [ok |-> FALSE]
    ELSE ParseMembers(SubSeq(text, 5, Len(text)),
                      DictSet(m, text[1].s, ScalarOfToken(text[3])))
ParsedObject(parsed) ==
    IF parsed.ok THEN [ok |-> TRUE, value |-> DictV(parsed.m)] ELSE [ok |-> FALSE]
loads(text) ==
    IF Len(text) = 1 /\ IsScalarToken(text[1])
    THEN [ok |-> TRUE, value |-> ScalarOfToken(text[1])]
    ELSE IF Len(text) >= 2 /\ text[1] = Punct("{") /\ text[Len(text)] = Punct("}")
    THEN IF Len(text) = 2 THEN [ok |-> TRUE, value |-> DictV(<<>>)]
         ELSE ParsedObject(ParseMembers(SubSeq(text, 2, Len(text) - 1), <<>>))
    ELSE [ok |-> FALSE]

DeserializeIssue(value, pointer) ==
    [issue_type |-> "deserialize", value |-> value, pointer |-> pointer]
SerializeIssue(value, pointer) ==
    [issue_type |-> "serialize", value |-> value, pointer |-> pointer]
\* raise ValidationError([issue])
RaiseValidation(issues) == [value |-> Empty, issues |-> issues, raised |-> "ValidationError"]

\* the serializer the codec falls back to without orjson hands json.loads and
\* json.dumps a JSONDecoder / JSONEncoder instance as cls; calling it is a
\* TypeError, which from_str, to_str and the others turn into a ValidationError
Serializers == {"orjson", "json"}

Decoded(value, parsed) ==
    IF parsed.ok THEN Ok(parsed.value, <<>>)
    ELSE RaiseValidation(<<DeserializeIssue(value, RootPointer)>>)
\* from_str, from_bytes
from_text(ser, value) ==
    IF ser = "json" \/ value.t \notin {"jsonstr", "jsonbytes"}
    THEN RaiseValidation(<<DeserializeIssue(value, RootPointer)>>)
    ELSE Decoded(value, loads(value.text))
to_str(ser, value) ==
    IF ser = "json" \/ ~Serializable(value)
    THEN RaiseValidation(<<SerializeIssue(value, RootPointer)>>)
    ELSE Ok(JsonStr(dumps(value)), <<>>)
to_bytes(ser, value) ==
    IF ser = "json" \/ ~Serializable(value)
    THEN RaiseValidation(<<SerializeIssue(value, RootPointer)>>)
    ELSE Ok(JsonBytes(dumps(value)), <<>>)

(***************************************************************************)
(* Codec  (_codec.py)                                                      *)
(***************************************************************************)
\* an argument left at its default Empty
Unset == "Empty"
TextFormats == {"jsonstr", "jsonbytes"}
CodecFormats == Formats \cup TextFormats \cup {"textstream", "binstream"}

format_translation(format) ==
    CASE format \in {"jsonstr", "jsonbytes", "binstream", "textstream", "json"} -> "json"
      [] format = "struct" -> "struct"
      [] format = "unstruct" -> "unstruct"

\* Config(source=source, target=target, ...): the formats as the call gave them
ConfigOf(a, source, target) ==
    [source |-> source, target |-> target,
     coerce |-> a.coerce, validate |-> a.validate, convert |-> a.convert,
     include |-> a.include, exclude |-> a.exclude,
     exclude_none |-> a.exclude_none, exclude_unset |-> a.exclude_unset,
     exclude_default |-> a.exclude_default, extras_mode |-> a.extras_mode]
\* the tuple hashed into the cache key: the formats translated
ConfigKey(a, source, target) ==
    ConfigOf(a, format_translation(source), format_translation(target))
\* _create_config: the cached config under the key, else a new one stored
\* under it (the LRU holds 1024 entries, more than any run here creates)
create_config(config_cache, key, config) ==
    IF DictHas(config_cache, key)
    THEN [config |-> DictGet(config_cache, key), config_cache |-> config_cache]
    ELSE [config |-> config, config_cache |-> DictSet(config_cache, key, config)]

\* Codec(): no config cached, no handler created, DefaultSerializer chosen by
\* whether orjson imports; schema is the record class the calls name and
\* output the text written so far to the stream the calls may pass
CodecNew(schema, serializer) ==
    [kind |-> "codec", schema |-> schema, serializer |-> serializer,
     config_cache |-> <<>>, cache_handlers |-> Idle, output |-> <<>>, calls |-> 0]

\* what a call leaves: the exception or return value, and how far it got
ExecRet(raised, value, issues) ==
    [raised |-> raised, value |-> value, issues |-> issues,
     decoded |-> FALSE, handled |-> FALSE, handler_issues |-> <<>>, config |-> Idle]
Returned(c, value) == [codec |-> c, ret |-> ExecRet("none", value, <<>>)]
Raised(c, exc) == [codec |-> c, ret |-> ExecRet(exc, Empty, <<>>)]
\* a serializer result as the call's result
Serialized(c, result) == [codec |-> c, ret |-> ExecRet(result.raised, result.value, result.issues)]
AfterDecode(exec) == [exec EXCEPT !.ret.decoded = TRUE]
AfterHandle(exec, config, handled) ==
    [exec EXCEPT !.ret.handled = TRUE, !.ret.config = config,
                 !.ret.handler_issues = handled.issues]

\* the return for an excluded or empty result
EmptyOf(target) ==
    CASE target = "jsonbytes" -> JsonBytes(<<>>)
      [] target = "jsonstr" -> JsonStr(<<>>)
      [] OTHER -> Empty

\* ser.to_text_stream(input, output): dumps, then output.write
WriteText(c, a, dumped) ==
    IF dumped.raised # "none" THEN Serialized(c, dumped)
    ELSE IF a.output = Unset THEN Raised(c, "AttributeError")
    ELSE Returned([c EXCEPT !.output = Append(@, dumped.value.text)], NoneV)

\* execute after the handler returned
ExecuteEncode(c, a, target, handled) ==
    IF handled.raised # "none" THEN Raised(c, handled.raised)
    ELSE IF Len(handled.issues) > 0
    THEN [codec |-> c, ret |-> ExecRet("ValidationError", Empty, handled.issues)]
    ELSE IF PathMatches(a.include, RootPointer) \/ handled.value # Empty
    THEN CASE target \in {"struct", "unstruct", "json"} -> Returned(c, handled.value)
           [] target = "jsonstr" -> Serialized(c, to_str(c.serializer, handled.value))
           [] target = "jsonbytes" -> Serialized(c, to_bytes(c.serializer, handled.value))
           [] OTHER -> WriteText(c, a, to_str(c.serializer, handled.value))
    ELSE Returned(c, EmptyOf(target))

ExecuteFinish(c, a, target, config, handled) ==
    AfterHandle(ExecuteEncode(c, a, target, handled), config, handled)

\* type_handler.handle(..., config=self._create_config(...)); build() runs on
\* the handler's first dispatch
ExecuteHandled(c, a, target, input, conf, b) ==
    IF b.raised # "none"
    THEN Raised([c EXCEPT !.config_cache = conf.config_cache], b.raised)
    ELSE ExecuteFinish([c EXCEPT !.config_cache = conf.config_cache,
                                 !.cache_handlers = b],
                       a, target, conf.config,
                       ModelHandle(c.schema, b, input, RootPointer,
                                   PathMatches(a.include, RootPointer), FALSE,
                                   conf.config))

\* get_type_handler(type_hint) and the config for this call
ExecuteHandle(c, a, source, target, input) ==
    ExecuteHandled(c, a, target, input,
                   create_config(c.config_cache, ConfigKey(a, source, target),
                                 ConfigOf(a, source, target)),
                   IF c.cache_handlers # Idle THEN c.cache_handlers
                   ELSE ModelBuild(c.schema, <<>>))

ExecuteDecoded(c, a, source, target, loaded) ==
    IF loaded.raised # "none" THEN AfterDecode(Serialized(c, loaded))
    ELSE [ExecuteHandle(c, a, source, target, loaded.value)
            EXCEPT !.ret.decoded = source \in TextFormats]

\* the jsonbytes / jsonstr special cases, then ser.from_bytes / ser.from_str;
\* input.decode and input.encode exist on bytes and on str only
ExecuteDecode(c, a, source, target) ==
    IF source \in TextFormats /\ ~a.coerce /\ ~a.validate /\ target = source
    THEN Returned(c, a.input)
    ELSE IF source \in TextFormats /\ ~a.coerce /\ ~a.validate /\ target \in TextFormats
    THEN IF a.input.t # source THEN Raised(c, "AttributeError")
         ELSE Returned(c, [a.input EXCEPT !.t = target])
    ELSE ExecuteDecoded(c, a, source, target,
                        IF source \in TextFormats THEN from_text(c.serializer, a.input)
                        ELSE Ok(a.input, <<>>))

\* the root exclude and the serializer lookup
ExecuteTarget(c, a, source, target) ==
    IF PathMatches(a.exclude, RootPointer) THEN Returned(c, EmptyOf(target))
    ELSE IF a.serializer # "default" THEN Raised(c, "ValueError")
    ELSE ExecuteDecode(c, a, source, target)

\* target inference; the stream the calls pass is a text stream
ExecuteSource(c, a, source) ==
    ExecuteTarget(c, a, source,
                  IF a.target # Unset THEN a.target
                  ELSE IF a.output # Unset THEN "textstream"
                  ELSE source)

\* source inference; every type_hint the calls pass is a record class
InferredSource(a) ==
    IF a.source # Unset THEN a.source
    ELSE IF is_struct_instance(a.input) THEN "struct"
    ELSE IF a.input.t = "jsonstr" THEN "jsonstr"
    ELSE IF a.input.t = "jsonbytes" THEN "jsonbytes"
    ELSE Unset
\* type_hint and source inference
ExecuteInfer(c, a) ==
    IF a.type_hint = Unset /\ ~is_struct_instance(a.input) THEN Raised(c, "ValueError")
    ELSE IF InferredSource(a) = Unset THEN Raised(c, "ValueError")
    ELSE ExecuteSource(c, a, InferredSource(a))

\* the guard left off when an output stream is passed
NoFlagsNoOutput(a) == ~a.coerce /\ ~a.validate /\ ~a.convert /\ a.output = Unset

\* not coerce and not validate and not convert
NoFlags(a) == ~a.coerce /\ ~a.validate /\ ~a.convert

\* Codec.execute; the result is the codec after the call and the call's outcome
Execute(c, a) ==
    IF NoFlags(a) THEN Raised(c, "ValueError")
    ELSE ExecuteInfer(c, a)

(***************************************************************************)
(* The codec as a state machine: one codec, at most one earlier call, then *)
(* the call under observation.                                             *)
(***************************************************************************)
AllFlags == [coerce : BOOLEAN, validate : BOOLEAN, convert : BOOLEAN]
ConvertOnly == [coerce |-> FALSE, validate |-> FALSE, convert |-> TRUE]
NoFlagSet == [coerce |-> FALSE, validate |-> FALSE, convert |-> FALSE]

\* execute(input, type_hint, source=, target=, coerce=, validate=, convert=)
\* with every other argument at its default
Call(input, type_hint, source, target, flags) ==
    [input |-> input, type_hint |-> type_hint, source |-> source, target |-> target,
     coerce |-> flags.coerce, validate |-> flags.validate, convert |-> flags.convert,
     include |-> PathEverything, exclude |-> PathNothing,
     exclude_none |-> FALSE, exclude_unset |-> FALSE, exclude_default |-> FALSE,
     extras_mode |-> "forbid", serializer |-> "default", output |-> Unset]

CodecSchemas == {RecordT({}, <<>>), RecordT({NameA, NameBC}, <<>>)}
AliasSpelled == DictV(<<<<NameA, IntV(1)>>, <<AliasBC, IntV(1)>>>>)
NameSpelled == DictV(<<<<NameA, IntV(1)>>, <<NameBC, IntV(1)>>>>)
CodecDicts ==
    {DictV(<<>>), AliasSpelled, NameSpelled,
     DictV(<<<<NameA, IntV(1)>>, <<AliasBC, IntV(1)>>, <<KeyX, IntV(1)>>>>),
     DictV(<<<<NameA, NoneV>>, <<AliasBC, IntV(1)>>>>)}
FullInstance(schema) ==
    StructNew(schema, <<<<NameA, IntV(1)>>, <<NameBC, IntV(1)>>, <<NameD, IntV(1)>>>>).value
NativeInputs(schema) == CodecDicts \cup {FullInstance(schema)}
\* an object, an unterminated object, a number; and the object as bytes
TextInputs ==
    {JsonStr(dumps(AliasSpelled)), JsonStr(<<Punct("{")>>), JsonStr(dumps(IntV(1))),
     JsonBytes(dumps(AliasSpelled))}
ReturnFormats == Formats \cup TextFormats

\* calls that name the type, the source and the target
PlainCalls(schema) ==
    {Call(i, "T", s, t, f) :
        i \in NativeInputs(schema), s \in ReturnFormats, t \in ReturnFormats, f \in AllFlags}
    \cup {Call(i, "T", s, t, f) :
        i \in TextInputs, s \in TextFormats, t \in ReturnFormats, f \in AllFlags}
\* calls that leave type, source or target to be inferred
InferredCalls(schema) ==
    {[Call(i, th, Unset, Unset, f) EXCEPT !.output = o] :
        i \in NativeInputs(schema) \cup TextInputs, th \in {Unset, "T"},
        f \in {NoFlagSet, ValidateConvert, ConvertOnly}, o \in {Unset, "stream"}}
\* calls with a filter at the root, another serializer name or an output stream
VariedCalls(schema) ==
    LET base == {Call(i, "T", "json", t, f) :
                    i \in CodecDicts, t \in {"json", "jsonstr", Unset},
                    f \in {NoFlagSet, ValidateConvert}}
                \cup {Call(i, "T", "jsonstr", t, f) :
                    i \in TextInputs, t \in {"json", "jsonstr", Unset},
                    f \in {NoFlagSet, ValidateConvert}}
    IN {[c EXCEPT !.exclude = PathExact(RootPointer)] : c \in base}
       \cup {[c EXCEPT !.include = PathExact(Join(RootPointer, NameA))] : c \in base}
       \cup {[c EXCEPT !.serializer = "other"] : c \in base}
       \cup {[c EXCEPT !.output = "stream"] : c \in base}
ExecuteArgs(schema) == PlainCalls(schema) \cup InferredCalls(schema) \cup VariedCalls(schema)

\* the calls a codec may have served before
EarlierArgs ==
    {Call(AliasSpelled, "T", "json", "json", ValidateConvert),
     Call(AliasSpelled, "T", "json", "jsonstr", ValidateConvert),
     Call(AliasSpelled, "T", "json", "struct", ValidateConvert),
     Call(AliasSpelled, "T", "json", "struct", ConvertOnly),
     Call(JsonStr(dumps(AliasSpelled)), "T", "jsonstr", "json", ValidateConvert),
     [Call(AliasSpelled, "T", "json", Unset, ValidateConvert) EXCEPT !.output = "stream"]}

CodecInit ==
    /\ codec \in {CodecNew(schema, ser) : schema \in CodecSchemas, ser \in Serializers}
    /\ codecCall \in {[kind |-> "pending", args |-> a, ret |-> Idle, before |-> Idle] :
                        a \in ExecuteArgs(codec.schema)}
    /\ numberHandler = Idle /\ numberCall = Idle
    /\ unionHandler = Idle /\ unionCall = Idle
    /\ modelHandler = Idle /\ modelCall = Idle
    /\ OthersIdle

Served(exec) == [exec.codec EXCEPT !.calls = @ + 1]

\* a call made on the codec before the one observed
ExecuteEarlier ==
    /\ codecCall.kind = "pending"
    /\ codec.calls = 0
    /\ \E a \in EarlierArgs : codec' = Served(Execute(codec, a))
    /\ UNCHANGED <<codecCall, numberVars, unionVars, modelVars, othersVars>>

Executed(call, c, exec) ==
    [call EXCEPT !.kind = "done", !.ret = exec.ret, !.before = c]
ExecuteDone(exec) ==
    /\ codec' = Served(exec)
    /\ codecCall' = Executed(codecCall, codec, exec)
\* codec.execute(**args)
ExecuteCall ==
    /\ codecCall.kind = "pending"
    /\ ExecuteDone(Execute(codec, codecCall.args))
    /\ UNCHANGED <<numberVars, unionVars, modelVars, othersVars>>

CodecNext == ExecuteEarlier \/ ExecuteCall
SpecCodec == CodecInit /\ [][CodecNext]_vars

(***************************************************************************)
(* Claims on Codec.execute.                                                *)
(***************************************************************************)
CodecCalled == codecCall.kind = "done"
\* a call that names its type, source and the default serializer, with JSON
\* text for a text source: none of its outcomes is a protocol error
DataCall(a) ==
    /\ a.coerce \/ a.validate \/ a.convert
    /\ a.type_hint # Unset /\ a.source # Unset /\ a.serializer = "default"
    /\ a.target # Unset \/ a.output # Unset

\* C2: with at least one flag set, execute returns when the root handler's
\* issue list is empty and raises ValidationError carrying that list when it
\* is not; no other exception comes out, and nothing is written to the output
\* stream when there are issues.
C2_TwoOutcomes ==
    (CodecCalled /\ DataCall(codecCall.args)) =>
        /\ codecCall.ret.raised \in {"none", "ValidationError"}
        /\ codecCall.ret.handled =>
              /\ codecCall.ret.handler_issues = <<>> => codecCall.ret.raised = "none"
              /\ codecCall.ret.handler_issues # <<>> =>
                    /\ codecCall.ret.raised = "ValidationError"
                    /\ codecCall.ret.issues = codecCall.ret.handler_issues
                    /\ codec.output = codecCall.before.output

\* C3: execute with coerce, validate and convert all false raises the
\* protocol error (ValueError) whatever the other arguments are, returns
\* nothing, writes nothing to the output stream, and neither decodes the
\* input nor reaches a handler or the config cache.
C3_NoFlagsProtocolError ==
    (/\ CodecCalled
     /\ ~codecCall.args.coerce /\ ~codecCall.args.validate /\ ~codecCall.args.convert)
    => /\ codecCall.ret.raised = "ValueError"
       /\ codecCall.ret.value = Empty
       /\ ~codecCall.ret.decoded
       /\ ~codecCall.ret.handled
       /\ codec.output = codecCall.before.output
       /\ codec.config_cache = codecCall.before.config_cache
       /\ codec.cache_handlers = codecCall.before.cache_handlers

\* a flagless call with JSON text and an output stream, on a codec that has
\* served a call before
C3_Witness ==
    /\ CodecCalled
    /\ ~codecCall.args.coerce /\ ~codecCall.args.validate /\ ~codecCall.args.convert
    /\ codecCall.args.output # Unset
    /\ codecCall.args.input.t = "jsonstr"
    /\ codecCall.before.calls = 1
    /\ codecCall.ret.raised = "ValueError"

(***************************************************************************)
(* The round trip struct -> json -> jsonstr -> json -> struct on one codec. *)
(***************************************************************************)
RoundTripSources == <<"struct", "json", "jsonstr", "json">>
RoundTripTargets == <<"json", "jsonstr", "json", "struct">>
RoundTripLen == Len(RoundTripSources)

RoundTripInit ==
    /\ codec \in {CodecNew(schema, ser) : schema \in RequiredClasses, ser \in Serializers}
    /\ codecCall \in {[kind |-> "roundtrip", v |-> v, step |-> 0, current |-> v,
                       raised |-> "none"] : v \in InstancesOf(codec.schema)}
    /\ numberHandler = Idle /\ numberCall = Idle
    /\ unionHandler = Idle /\ unionCall = Idle
    /\ modelHandler = Idle /\ modelCall = Idle
    /\ OthersIdle

\* a call the codec served before the round trip starts
RoundTripEarlier ==
    /\ codecCall.kind = "roundtrip" /\ codecCall.step = 0
    /\ codec.calls = 0
    /\ \E a \in EarlierArgs : codec' = Served(Execute(codec, a))
    /\ UNCHANGED <<codecCall, numberVars, unionVars, modelVars, othersVars>>

RoundTripDone(exec) ==
    /\ codec' = Served(exec)
    /\ codecCall' = [codecCall EXCEPT !.step = @ + 1, !.current = exec.ret.value,
                                      !.raised = exec.ret.raised]
\* the next leg: execute(current, T, source=, target=, validate=True, convert=True)
RoundTripStep ==
    /\ codecCall.kind = "roundtrip"
    /\ codecCall.step < RoundTripLen /\ codecCall.raised = "none"
    /\ RoundTripDone(Execute(codec,
            Call(codecCall.current, "T", RoundTripSources[codecCall.step + 1],
                 RoundTripTargets[codecCall.step + 1], ValidateConvert)))
    /\ UNCHANGED <<numberVars, unionVars, modelVars, othersVars>>

RoundTripNext == RoundTripEarlier \/ RoundTripStep
SpecRoundTrip == RoundTripInit /\ [][RoundTripNext]_vars

\* C1: for every record type T of int fields and every instance v, the four
\* legs under validate+convert raise nothing and end in an instance equal to v.
C1_RoundTrip ==
    codecCall.kind = "roundtrip" =>
        /\ codecCall.raised = "none"
        /\ codecCall.step = RoundTripLen => StructEq(codecCall.current, codecCall.v)

(***************************************************************************)
(* StringHandler and its subclasses  (_handlers/strings.py, scalars.py)    *)
(***************************************************************************)
LengthIssue(comparator, value, pointer, limit) ==
    [issue_type |-> "length", comparator |-> comparator, value |-> value,
     pointer |-> pointer, limit |-> limit]

\* a PurePosixPath, held as its parts
PathV(parts) == [t |-> "path", parts |-> parts]
Slash == "/"
\* the segments of a str between slashes
RECURSIVE Segments(_, _, _)
Segments(chars, current, done) ==
    IF Len(chars) = 0 THEN Append(done, current)
    ELSE IF Head(chars) = Slash THEN Segments(Tail(chars), <<>>, Append(done, current))
    ELSE Segments(Tail(chars), Append(current, Head(chars)), done)
\* PurePosixPath(s) for a relative s: empty segments are dropped
PurePosixPath(s) ==
    PathV(SelectSeq(Segments(s, <<>>, <<>>), LAMBDA seg : Len(seg) > 0))
\* str(path): the parts joined by slashes, "." for no part
RECURSIVE JoinParts(_)
JoinParts(parts) ==
    IF Len(parts) = 0 THEN <<>>
    ELSE IF Len(parts) = 1 THEN Head(parts)
    ELSE Head(parts) \o <<Slash>> \o JoinParts(Tail(parts))
PathStr(path) == IF Len(path.parts) = 0 THEN StrV(<<".">>) ELSE StrV(JoinParts(path.parts))

\* the handler classes modelled: structure_class is str or PurePosixPath
StringHandlerClasses == {"StringHandler", "PurePosixPathHandler"}
\* self.structure(value): str(value), or PurePosixPath(value), which raises
\* TypeError for anything that is no str or path
Structure(cls, value) ==
    IF cls = "StringHandler"
    THEN IF value.t = "str" THEN Ok(value, <<>>) ELSE Ok(StrV(<<"?">>), <<>>)
    ELSE CASE value.t = "str" -> Ok(PurePosixPath(value.s), <<>>)
           [] value.t = "path" -> Ok(value, <<>>)
           [] OTHER -> Raise("TypeError")
\* is_structure_class: obj.__class__ is self.structure_class
IsStructureClass(cls, value) ==
    IF cls = "StringHandler" THEN value.t = "str" ELSE value.t = "path"
\* self.destructure(value) = str(value)
Destructure(cls, value) ==
    CASE value.t = "str" -> value
      [] value.t = "path" -> PathStr(value)
      [] OTHER -> StrV(<<"?">>)

\* _validate_length_eq .. _validate_length_lt; len() of an int, a bool, None
\* or a path raises TypeError
HasLen(value) == value.t \in {"str", "dict", "list"}
LenOf(value) ==
    CASE value.t = "str" -> Len(value.s)
      [] value.t = "dict" -> Len(value.m)
      [] value.t = "list" -> Len(value.l)
validate_length(comparator, limit, value, pointer) ==
    IF ~HasLen(value) THEN Raise("TypeError")
    ELSE IF CASE comparator = "eq" -> LenOf(value) = limit
              [] comparator = "gt" -> LenOf(value) > limit
              [] comparator = "ge" -> LenOf(value) >= limit
              [] comparator = "le" -> LenOf(value) <= limit
              [] comparator = "lt" -> LenOf(value) < limit
    THEN Ok(value, <<>>)
    ELSE Ok(value, <<LengthIssue(comparator, value, pointer, limit)>>)

\* issues.extend(issue for validator in self._validators for issue in ...)
RECURSIVE RunLengthValidators(_, _, _, _)
RunLengthValidators(validators, value, pointer, issues) ==
    IF Len(validators) = 0 THEN Ok(value, issues)
    ELSE IF validate_length(Head(validators).comparator, Head(validators).limit,
                            value, pointer).raised # "none"
    THEN Raise("TypeError")
    ELSE RunLengthValidators(Tail(validators), value, pointer,
            issues \o validate_length(Head(validators).comparator,
                                      Head(validators).limit, value, pointer).issues)

LengthValidator(comparator, limit) ==
    [fn |-> "_validate_length_" \o comparator, comparator |-> comparator, limit |-> limit]
\* the loop's assignments: the constraint of the bag with this comparator
\* (seen is never added to, so no constraint is skipped)
LastLength(constraints, comparator) == BagGet(constraints, <<"length", comparator>>)

\* the lower-bound validator after the consolidation of lines 237-249
LengthLower(len_min_inc, len_min_exc) ==
    IF len_min_inc # NoneV /\ len_min_exc # NoneV
    THEN IF len_min_inc.value > len_min_exc.value
         THEN <<LengthValidator("ge", len_min_inc.value)>>
         ELSE <<LengthValidator("gt", len_min_exc.value)>>
    ELSE IF len_min_inc # NoneV THEN <<LengthValidator("ge", len_min_inc.value)>>
    ELSE IF len_min_exc # NoneV THEN <<LengthValidator("gt", len_min_exc.value)>>
    ELSE <<>>
\* the upper-bound validator: with both given, lines 250-254 assign
\* len_min_exc / len_min_inc, so len_max_inc and len_max_exc stay as they were
LengthUpper(len_max_inc, len_max_exc) ==
    IF len_max_inc # NoneV THEN <<LengthValidator("le", len_max_inc.value)>>
    ELSE IF len_max_exc # NoneV THEN <<LengthValidator("lt", len_max_exc.value)>>
    ELSE <<>>
\* StringHandler.build: the _validators list (no encoding, no pattern)
StringBuild(constraints) ==
    IF Len(constraints) = 0 THEN <<>>
    ELSE IF LastLength(constraints, "eq") # NoneV
    THEN <<LengthValidator("eq", LastLength(constraints, "eq").value)>>
    ELSE LengthLower(LastLength(constraints, "ge"), LastLength(constraints, "gt"))
         \o LengthUpper(LastLength(constraints, "le"), LastLength(constraints, "lt"))

\* StringHandler.coerce
StringCoerce(cls, value, config) ==
    IF cls # "StringHandler" /\ config.source # "json" /\ value.t = "str"
    THEN Structure(cls, value).value
    ELSE value

\* what handle returns: converted, coerced or value by the flags
StringAnswer(config, value, coerced, converted, issues) ==
    IF config.convert THEN Ok(converted, issues)
    ELSE IF config.coerce THEN Ok(coerced, issues)
    ELSE Ok(value, issues)

\* the json branch after the validators ran: structure() of a str
StringFromJson(cls, config, value, coerced, issues) ==
    IF coerced.t = "str" /\ (config.validate \/ (config.convert /\ config.target # "json"))
    THEN StringAnswer(config, value, coerced, Structure(cls, coerced).value, issues)
    ELSE StringAnswer(config, value, coerced, coerced, issues)

\* the other branch after the validators ran: destructure() for target json,
\* copy_structure() otherwise
StringFromStruct(cls, config, value, coerced, issues) ==
    IF IsStructureClass(cls, coerced) /\ config.convert /\ config.target = "json"
       /\ coerced.t # "str"
    THEN StringAnswer(config, value, coerced, Destructure(cls, coerced), issues)
    ELSE StringAnswer(config, value, coerced, coerced, issues)

\* the validators' part of handle, given their result
StringValidated(cls, config, value, coerced, type_issues, run) ==
    IF run.raised # "none" THEN run
    ELSE IF config.source = "json"
    THEN StringFromJson(cls, config, value, coerced, type_issues \o run.issues)
    ELSE StringFromStruct(cls, config, value, coerced, type_issues \o run.issues)

\* StringHandler.handle, after coerce
StringCoerced(cls, validators, config, value, coerced, pointer) ==
    StringValidated(cls, config, value, coerced,
        IF config.source = "json"
        THEN IF coerced.t # "str" THEN <<JsonTypeIssue(coerced, pointer, "string")>> ELSE <<>>
        ELSE IF ~IsStructureClass(cls, coerced)
             THEN <<StructTypeIssue(coerced, pointer, cls)>> ELSE <<>>,
        IF config.validate /\ Len(validators) > 0
           /\ (config.source = "json" \/ cls = "StringHandler")
        THEN RunLengthValidators(validators, coerced, pointer, <<>>)
        ELSE Ok(coerced, <<>>))

\* StringHandler.handle
StringHandle(cls, validators, value, pointer, included, excluded, config) ==
    IF ~included \/ excluded \/ value = Empty THEN Ok(Empty, <<>>)
    ELSE StringCoerced(cls, validators, config, value,
            IF config.coerce THEN StringCoerce(cls, value, config) ELSE value, pointer)

(***************************************************************************)
(* The string handler as a state machine                                   *)
(***************************************************************************)
MaxLength == 2         \* largest limit of a Length constraint
MaxDeclared == 3       \* most Length constraints in one declaration

Comparators == {"eq", "gt", "ge", "le", "lt"}
LengthUniverse == {Length(cmp, n) : cmp \in Comparators, n \in 0..MaxLength}
\* the declarations: Length constraints in the order written, at most one of
\* them an eq
LengthDeclarations ==
    {d \in UNION {[1..n -> LengthUniverse] : n \in 0..MaxDeclared} :
        Cardinality({k \in DOMAIN d : d[k].comparator = "eq"}) <= 1}
CharA == "a"
\* the strings "", "a", "aa", ...
StrOfLen(n) == StrV([k \in 1..n |-> CharA])
LengthValues == {StrOfLen(n) : n \in 0..(MaxLength + 1)}
ValidateFlags == {f \in Flags : f.validate}
LengthConfigs == {Config(s, t, f, "forbid") : s \in {"json", "struct"}, t \in {"json", "struct"},
                                              f \in {x \in ValidateFlags : ~x.coerce}}
\* values given to a string-family handler: JSON strings, a path, a number
FamilyValues == {StrV(<<"a", Slash, "b">>), StrV(<<"a", Slash, Slash, "b">>), StrV(<<"a">>),
                 PathV(<<(<<"a">>), (<<"b">>)>>), IntV(1), NoneV}
FamilyConfigs == {Config(s, t, f, "forbid") : s \in Formats, t \in Formats, f \in Flags}

StringHandlerNew(cls, declared) ==
    [cls |-> cls, declared |-> declared, constraints |-> ConstraintsNew(declared),
     validators |-> <<>>, prebuilt |-> FALSE]
StringCallNew(value, config, included) ==
    [pc |-> "pending", value |-> value, config |-> config, included |-> included,
     ret |-> Raise("none")]

\* a str handler with declared Length constraints, or a handler of the family
\* without constraints, and the arguments of the call to come
StringInit ==
    /\ \/ /\ leafHandler \in {StringHandlerNew("StringHandler", d) : d \in LengthDeclarations}
          /\ leafCall \in {StringCallNew(v, c, TRUE) : v \in LengthValues, c \in LengthConfigs}
       \/ /\ leafHandler \in {StringHandlerNew(cls, <<>>) : cls \in StringHandlerClasses}
          /\ leafCall \in {StringCallNew(v, c, i) :
                              v \in FamilyValues, c \in FamilyConfigs, i \in BOOLEAN}
    /\ HandlersIdle
    /\ RegistryIdle /\ PatchesIdle /\ InstanceIdle /\ PointerIdle

\* the first call builds the validators (prebuild), every call runs handle
StringHandleCall ==
    /\ leafCall.pc \in {"pending", "handled"}
    /\ LET validators == IF leafHandler.prebuilt THEN leafHandler.validators
                         ELSE StringBuild(leafHandler.constraints)
       IN /\ leafHandler' = [leafHandler EXCEPT !.validators = validators, !.prebuilt = TRUE]
          /\ leafCall' = [leafCall EXCEPT !.pc = "handled",
                            !.ret = StringHandle(leafHandler.cls, validators, leafCall.value,
                                        RootPointer, leafCall.included, FALSE, leafCall.config)]
    /\ UNCHANGED <<numberVars, unionVars, modelVars, codecVars,
                   registryVars, patchVars, instanceVars, jsonPointer>>

StringNext == StringHandleCall
SpecString == StringInit /\ [][StringNext]_vars

StringHandled == leafCall # Idle /\ leafHandler # Idle /\ leafCall.pc = "handled"
                 /\ "declared" \in DOMAIN leafHandler
HasLengthIssue(ret) == \E k \in 1..Len(ret.issues) : ret.issues[k].issue_type = "length"
SatisfiesLength(c, n) ==
    CASE c.comparator = "eq" -> n = c.value
      [] c.comparator = "gt" -> n > c.value
      [] c.comparator = "ge" -> n >= c.value
      [] c.comparator = "le" -> n <= c.value
      [] c.comparator = "lt" -> n < c.value
\* what the declaration asks of a length: its eq alone when it has one, every
\* bound otherwise
DeclaredAccepts(declared, n) ==
    IF \E k \in DOMAIN declared : declared[k].comparator = "eq"
    THEN \A k \in DOMAIN declared : declared[k].comparator = "eq" => n = declared[k].value
    ELSE \A k \in DOMAIN declared : SatisfiesLength(declared[k], n)

\* C11: a str handler declared with several Length constraints, in any order,
\* reports no length issue for a string exactly when the string's length meets
\* the tightest bounds of the declaration (every ge/gt and every le/lt limit),
\* or the length_eq limit alone when one is declared.
C11_TightestLengthBounds ==
    (StringHandled /\ Len(leafHandler.declared) > 0 /\ leafCall.value.t = "str")
        => (leafCall.ret.raised = "none"
            /\ (~HasLengthIssue(leafCall.ret)
                <=> DeclaredAccepts(leafHandler.declared, Len(leafCall.value.s))))

\* the JSON form of a string-family value is a JSON string
IsJsonString(value) == value.t = "str"

\* C13: with convert set and target json, the value a string-family handler
\* returns for an input it accepts is a JSON string, for every source shape
\* (source json included) and every validate / coerce setting.
C13_JsonFormOut ==
    (StringHandled /\ leafCall.included /\ leafCall.config.convert
     /\ leafCall.config.target = "json" /\ leafCall.ret.raised = "none"
     /\ Len(leafCall.ret.issues) = 0)
        => IsJsonString(leafCall.ret.value)

(***************************************************************************)
(* EnumHandler  (_handlers/scalars.py)                                     *)
(***************************************************************************)
EnumOptionIssue(value, pointer, options) ==
    [issue_type |-> "enum_option", value |-> value, pointer |-> pointer, options |-> options]

\* two enum types: an IntEnum with members 1, 2 and a StrEnum with "a", "b"
EnumTypes == {"IntE", "StrE"}
EnumV(type_hint, value) == [t |-> "enum", type_hint |-> type_hint, value |-> value]
\* frozenset(_.value for _ in self.type_hint)
python_options(type_hint) ==
    IF type_hint = "IntE" THEN {IntV(1), IntV(2)}
    ELSE {StrV(<<"a">>), StrV(<<"b">>)}
\* type_hint.__bases__[0], unravelled past the Enum classes
base_type(type_hint) == IF type_hint = "IntE" THEN "int" ELSE "str"

\* the handler of the base type, built with the enum's (no) constraints
BaseHandle(type_hint, value, pointer, included, excluded, config) ==
    IF base_type(type_hint) = "int"
    THEN IntHandle(<<>>, value, pointer, included, excluded, config)
    ELSE StringHandle("StringHandler", <<>>, value, pointer, included, excluded, config)

\* Python's == between values: numbers by value (True == 1, 1.0 == 1), a
\* member of an IntEnum / StrEnum as its value
RawOf(value) == IF value.t = "enum" THEN value.value ELSE value
PyEq(x, y) ==
    IF IsNumber(RawOf(x)) /\ IsNumber(RawOf(y)) THEN Twice(RawOf(x)) = Twice(RawOf(y))
    ELSE RawOf(x) = RawOf(y)
Hashable(value) == value.t \notin {"dict", "list"}
\* value in options, for a set of options: hashing raises TypeError
InOptions(value, options) == \E o \in options : PyEq(value, o)
\* self.type_hint(value): the member with that value, or ValueError
EnumCall(type_hint, value) ==
    IF value.t = "enum" /\ value.type_hint = type_hint THEN Ok(value, <<>>)
    ELSE IF InOptions(value, python_options(type_hint))
    THEN Ok(EnumV(type_hint, CHOOSE o \in python_options(type_hint) : PyEq(value, o)), <<>>)
    ELSE Raise("ValueError")

\* the Config(target="json", convert=True) of build
BuildConfig == Config("unstruct", "json", [coerce |-> FALSE, validate |-> FALSE, convert |-> TRUE],
                      "forbid")
\* EnumHandler.build: json_options, or ValidationError for any issue
json_options(type_hint) ==
    {BaseHandle(type_hint, o, RootPointer, TRUE, FALSE, BuildConfig).value :
        o \in python_options(type_hint)}
EnumBuildIssues(type_hint) ==
    \E o \in python_options(type_hint) :
        Len(BaseHandle(type_hint, o, RootPointer, TRUE, FALSE, BuildConfig).issues) > 0

\* the return of handle
EnumAnswer(config, value, cvalue, issues) ==
    IF config.convert \/ config.coerce THEN Ok(cvalue, issues) ELSE Ok(value, issues)

\* source json, after the base handler returned
EnumFromJson(type_hint, options, config, value, pointer, base) ==
    IF base.raised # "none" THEN base
    ELSE IF ~(config.validate \/ config.convert) THEN EnumAnswer(config, value, base.value, base.issues)
    ELSE IF config.target = "json"
    THEN IF ~Hashable(base.value) THEN Raise("TypeError")
         ELSE IF ~InOptions(base.value, options)
         THEN EnumAnswer(config, value, base.value,
                         Append(base.issues, EnumOptionIssue(base.value, pointer, options)))
         ELSE EnumAnswer(config, value, base.value, base.issues)
    ELSE IF EnumCall(type_hint, base.value).raised # "none"
         THEN EnumAnswer(config, value, base.value,
                Append(base.issues,
                       EnumOptionIssue(base.value, pointer, python_options(type_hint))))
         ELSE EnumAnswer(config, value, EnumCall(type_hint, base.value).value, base.issues)

\* the coercion of the other branch: type_hint(cvalue), ValueError suppressed
EnumCoerce(type_hint, config, value) ==
    IF config.coerce /\ ~(value.t = "enum" /\ value.type_hint = type_hint)
       /\ EnumCall(type_hint, value).raised = "none"
    THEN EnumCall(type_hint, value).value
    ELSE value

\* the other sources, after the coercion
EnumFromStruct(type_hint, config, value, cvalue, pointer) ==
    IF ~(cvalue.t = "enum" /\ cvalue.type_hint = type_hint)
    THEN Ok(cvalue, <<StructTypeIssue(cvalue, pointer, type_hint)>>)
    ELSE IF config.convert /\ config.target = "json"
    THEN BaseHandle(type_hint, cvalue.value, pointer, TRUE, FALSE, config)
    ELSE EnumAnswer(config, value, cvalue, <<>>)

\* EnumHandler.handle
EnumHandle(type_hint, options, value, pointer, included, excluded, config) ==
    IF ~included \/ excluded \/ value = Empty THEN Ok(Empty, <<>>)
    ELSE IF config.source = "json"
    THEN EnumFromJson(type_hint, options, config, value, pointer,
                      BaseHandle(type_hint, value, pointer, included, excluded, config))
    ELSE EnumFromStruct(type_hint, config, value, EnumCoerce(type_hint, config, value), pointer)

(***************************************************************************)
(* The enum handler as a state machine                                     *)
(***************************************************************************)
EnumInputs ==
    {IntV(i) : i \in 0..3}
    \cup {StrV(<<"a">>), StrV(<<"c">>), StrV(<<"1">>), BoolV(TRUE), FloatV(1, FALSE), NoneV,
          DictV(<<>>), ListV(<<>>)}
    \cup {EnumV(e, o) : e \in EnumTypes, o \in {IntV(1), StrV(<<"a">>)}}
EnumConfigs == {Config(s, t, f, "forbid") : s \in Formats, t \in Formats, f \in Flags}

EnumInit ==
    /\ leafHandler \in {[type_hint |-> e, options |-> {}, prebuilt |-> FALSE] : e \in EnumTypes}
    /\ leafCall \in {StringCallNew(v, c, i) : v \in EnumInputs, c \in EnumConfigs, i \in BOOLEAN}
    /\ HandlersIdle
    /\ RegistryIdle /\ PatchesIdle /\ InstanceIdle /\ PointerIdle

\* the first call builds json_options (prebuild), every call runs handle
EnumHandleCall ==
    /\ leafCall.pc \in {"pending", "handled"}
    /\ LET options == IF leafHandler.prebuilt THEN leafHandler.options
                      ELSE json_options(leafHandler.type_hint)
       IN /\ leafHandler' = [leafHandler EXCEPT !.options = options, !.prebuilt = TRUE]
          /\ leafCall' = [leafCall EXCEPT !.pc = "handled",
                            !.ret = IF EnumBuildIssues(leafHandler.type_hint)
                                    THEN Raise("ValidationError")
                                    ELSE EnumHandle(leafHandler.type_hint, options,
                                            leafCall.value, RootPointer, leafCall.included,
                                            FALSE, leafCall.config)]
    /\ UNCHANGED <<numberVars, unionVars, modelVars, codecVars,
                   registryVars, patchVars, instanceVars, jsonPointer>>

EnumNext == EnumHandleCall
SpecEnum == EnumInit /\ [][EnumNext]_vars

EnumHandled == leafCall # Idle /\ leafHandler # Idle /\ leafCall.pc = "handled"
               /\ "options" \in DOMAIN leafHandler
HasEnumOptionIssue(ret) ==
    \E k \in 1..Len(ret.issues) : ret.issues[k].issue_type = "enum_option"
\* the option set of the direction: the JSON-form member values for source
\* json, the members otherwise
DirectionOptions(type_hint, source) ==
    IF source = "json" THEN python_options(type_hint)
    ELSE {EnumV(type_hint, o) : o \in python_options(type_hint)}

\* C12: with validate set, handle reports no enum_option issue for a value
\* exactly when the value is in the option set of the direction (member values
\* in JSON form for source json, the members otherwise), for every target and
\* every coerce / convert setting.
C12_EnumMembership ==
    (EnumHandled /\ leafCall.included /\ leafCall.config.validate)
        => (leafCall.ret.raised = "none"
            /\ (~HasEnumOptionIssue(leafCall.ret)
                <=> leafCall.value \in DirectionOptions(leafHandler.type_hint,
                                                        leafCall.config.source)))

(***************************************************************************)
(* The int32 / int64 formats on wide integers                              *)
(***************************************************************************)
\* 2^n, 2^n - 1 and 2^n + 1 as magnitudes
Pow2(n) == [k \in 1..(n \div LimbBits + 1) |->
                IF k = n \div LimbBits + 1 THEN 2^(n % LimbBits) ELSE 0]
Pow2Minus1(n) == [k \in 1..(IF n % LimbBits = 0 THEN n \div LimbBits ELSE n \div LimbBits + 1) |->
                    IF k = n \div LimbBits + 1 THEN 2^(n % LimbBits) - 1 ELSE 2^LimbBits - 1]
Pow2Plus1(n) == [Pow2(n) EXCEPT ![1] = @ + 1]
\* a < b on magnitudes
RECURSIVE MagLess(_, _)
MagLess(x, y) ==
    IF Len(x) # Len(y) THEN Len(x) < Len(y)
    ELSE IF Len(x) = 0 THEN FALSE
    ELSE IF x[Len(x)] # y[Len(y)] THEN x[Len(x)] < y[Len(y)]
    ELSE MagLess(SubSeq(x, 1, Len(x) - 1), SubSeq(y, 1, Len(y) - 1))
\* -2^(w-1) <= v <= 2^(w-1) - 1
InSignedRange(v, w) ==
    IF ~IsBig(v) THEN TRUE
    ELSE IF v.neg THEN ~MagLess(Pow2(w - 1), v.limbs)
    ELSE MagLess(v.limbs, Pow2(w - 1))

WidthEdges == {31, 32, 63, 64}
WideValues ==
    {BigV(neg, m) : neg \in BOOLEAN,
        m \in UNION {{Pow2(n), Pow2Minus1(n), Pow2Plus1(n)} : n \in WidthEdges}}
    \cup {IntV(i) : i \in -1..1}
IntFormats == {"int32", "int64"}
FormatWidth(format) == IF format = "int32" THEN 32 ELSE 64
WideConfigs ==
    {[source |-> s, target |-> t, coerce |-> f.coerce, validate |-> f.validate,
      convert |-> f.convert] : s \in Formats, t \in {"json", "struct"}, f \in ValidateFlags}

\* an int handler with one format constraint, and the call to come
IntFormatInit ==
    /\ numberHandler \in {[constraints |-> ConstraintsNew(<<Format(f)>>), validators |-> <<>>,
                           prebuilt |-> FALSE] : f \in IntFormats}
    /\ \E value \in WideValues, config \in WideConfigs, included \in BOOLEAN :
          numberCall = [kind |-> "pending", value |-> value, config |-> config,
                        included |-> included, excluded |-> FALSE, ret |-> Idle]
    /\ unionHandler = Idle /\ unionCall = Idle
    /\ modelHandler = Idle /\ modelCall = Idle
    /\ codec = Idle /\ codecCall = Idle
    /\ OthersIdle
SpecIntFormat == IntFormatInit /\ [][NumberNext]_vars

NumberHandled == numberCall # Idle /\ numberCall.kind = "handle"
HasFormatIssue(ret) == \E k \in 1..Len(ret.issues) : ret.issues[k].issue_type = "format"
DeclaredFormat == numberHandler.constraints[1].value

\* C14: an int handler with the int32 (int64) format and validate set reports
\* no format issue for an integer v exactly when -2^31 <= v <= 2^31 - 1
\* (-2^63 <= v <= 2^63 - 1).
C14_SignedRange ==
    (NumberHandled /\ numberCall.included /\ numberCall.config.validate)
        => (numberCall.ret.raised = "none"
            /\ (~HasFormatIssue(numberCall.ret)
                <=> InSignedRange(numberCall.value, FormatWidth(DeclaredFormat))))

(***************************************************************************)
(* TypeRegistry  (_registry.py)                                            *)
(***************************************************************************)
\* resolve_type_hint: original_type_hint, type_hint, origin, annotations
TypeHintResolution(original_type_hint, type_hint, origin, annotations) ==
    [original_type_hint |-> original_type_hint, type_hint |-> type_hint,
     origin |-> origin, annotations |-> annotations]
NoOrigin == "None"
ConstraintC1 == Length("ge", 1)
resolve_type_hint(type_hint) ==
    CASE type_hint = "int" -> TypeHintResolution("int", "int", NoOrigin, <<>>)
      [] type_hint = "Annotated[int, C1]" ->
            TypeHintResolution("Annotated[int, C1]", "int", NoOrigin, <<ConstraintC1>>)
      [] type_hint = "ClassVar[int]" ->
            TypeHintResolution("ClassVar[int]", "ClassVar[int]", "ClassVar", <<>>)
      [] type_hint = "ClassVar" -> TypeHintResolution("ClassVar", "ClassVar", NoOrigin, <<>>)
TypeHints == {"int", "Annotated[int, C1]", "ClassVar[int]"}
\* what handler classes are registered for
RegisteredTypes == {"int", "ClassVar"}
HandlerClasses == {"H1", "H2"}
NoClass == "None"

\* a registry and its parent: child == TypeRegistry(parent)
Registries == {"child", "parent"}
ParentsOf(r) == IF r = "child" THEN <<"parent">> ELSE <<>>

\* a Constraints object: its identity and what it holds.  Constraints has
\* __hash__ and no __eq__, so as a dict key it is its identity
ConstraintsObject(id, content) == [id |-> id, content |-> content]
ConstraintsEmpty == ConstraintsObject(0, <<>>)

\* type_hint_options of get_type_handler_class
TypeHintOptions(thr) ==
    <<thr.original_type_hint, thr.type_hint>>
    \o (IF thr.origin # NoOrigin THEN <<thr.origin>> ELSE <<>>)
\* the first option this registry has a class for, 0 for none
FoundOption(classes, thr) ==
    IF \E k \in 1..Len(TypeHintOptions(thr)) :
            TypeHintOptions(thr)[k] \in RegisteredTypes /\ classes[TypeHintOptions(thr)[k]] # NoClass
    THEN CHOOSE k \in 1..Len(TypeHintOptions(thr)) :
            /\ TypeHintOptions(thr)[k] \in RegisteredTypes /\ classes[TypeHintOptions(thr)[k]] # NoClass
            /\ \A j \in 1..(k - 1) :
                  ~(TypeHintOptions(thr)[j] \in RegisteredTypes
                    /\ classes[TypeHintOptions(thr)[j]] # NoClass)
    ELSE 0

\* the two cache writes at the end of get_type_handler_class
CacheClass(reg, r, thr, option, class) ==
    [reg EXCEPT !.class_cache[r] =
        (option :> class) @@ (thr.original_type_hint :> class) @@ @]
GotClass(reg, class) == [registry |-> reg, ret |-> Ok(class, <<>>)]
MissingClass(reg) == [registry |-> reg, ret |-> Raise("TypeHandlerMissingError")]

\* get_type_handler_class of a registry without parents
GetClassLocal(reg, r, thr) ==
    IF thr.type_hint \in DOMAIN reg.class_cache[r]
    THEN GotClass(reg, reg.class_cache[r][thr.type_hint])
    ELSE IF FoundOption(reg.classes[r], thr) # 0
    THEN GotClass(CacheClass(reg, r, thr, TypeHintOptions(thr)[FoundOption(reg.classes[r], thr)],
                             reg.classes[r][TypeHintOptions(thr)[FoundOption(reg.classes[r], thr)]]),
                  reg.classes[r][TypeHintOptions(thr)[FoundOption(reg.classes[r], thr)]])
    ELSE MissingClass(reg)

\* the search through self._registries, given what the parent answered
GetClassFromParent(r, thr, parent) ==
    IF parent.ret.raised # "none" THEN MissingClass(parent.registry)
    ELSE GotClass(CacheClass(parent.registry, r, thr,
                             TypeHintOptions(thr)[Len(TypeHintOptions(thr))], parent.ret.value),
                  parent.ret.value)

\* TypeRegistry.get_type_handler_class
get_type_handler_class(reg, r, thr) ==
    IF Len(ParentsOf(r)) = 0 \/ thr.type_hint \in DOMAIN reg.class_cache[r]
       \/ FoundOption(reg.classes[r], thr) # 0
    THEN GetClassLocal(reg, r, thr)
    ELSE GetClassFromParent(r, thr, GetClassLocal(reg, ParentsOf(r)[1], thr))

\* TypeRegistry.register_type_handler(type_handler_class, type_hint=...): the
\* class is stored, then call_register_type_handler_callbacks() is called
\* without its three arguments
register_type_handler(reg, r, type_handler_class, type_hint) ==
    [registry |-> [reg EXCEPT !.classes[r][resolve_type_hint(type_hint).type_hint] =
                                    type_handler_class],
     ret |-> Raise("TypeError")]

\* a handler instance: its identity and what it was constructed with
HandlerObject(id, class, type_hint, constraints, type_hint_value) ==
    [id |-> id, class |-> class, type_hint |-> type_hint, constraints |-> constraints,
     type_hint_value |-> type_hint_value]
HandlerKey(type_hint, constraints, type_hint_value) ==
    <<type_hint, constraints.id, type_hint_value>>
IsPinnedForm(thr) == thr.origin \in {"ClassVar", "Final"}

\* Constraints(chain(annotations, constraints)): a new object
TotalConstraints(id, thr, constraints) ==
    ConstraintsObject(id, BagExtend(ConstraintsNew(thr.annotations), constraints.content))

\* the construction and the two cache writes, given the class lookup
NewHandler(r, thr, constraints, type_hint_value, total, found) ==
    IF found.ret.raised # "none" THEN found
    ELSE [registry |->
            [found.registry EXCEPT
                !.handlers[r] =
                    (HandlerKey(thr.type_hint, total, type_hint_value) :>
                        HandlerObject(total.id + 1, found.ret.value, thr.type_hint,
                                      total, type_hint_value))
                    @@ (HandlerKey(thr.original_type_hint, constraints, type_hint_value) :>
                        HandlerObject(total.id + 1, found.ret.value, thr.type_hint,
                                      total, type_hint_value))
                    @@ @,
                !.next = total.id + 2],
          ret |-> Ok(HandlerObject(total.id + 1, found.ret.value, thr.type_hint,
                                   total, type_hint_value), <<>>)]

\* get_type_handler after the first cache miss, the pinned value settled
GetHandlerMiss(reg, r, thr, constraints, type_hint_value) ==
    IF HandlerKey(thr.original_type_hint, constraints, type_hint_value)
            \in DOMAIN reg.handlers[r]
    THEN [registry |-> reg,
          ret |-> Ok(reg.handlers[r][HandlerKey(thr.original_type_hint, constraints,
                                                type_hint_value)], <<>>)]
    ELSE NewHandler(r, thr, constraints, type_hint_value,
                    TotalConstraints(reg.next, thr, constraints),
                    get_type_handler_class(reg, r, thr))

\* TypeRegistry.get_type_handler
get_type_handler(reg, r, type_hint, constraints, type_hint_value) ==
    IF HandlerKey(type_hint, constraints, type_hint_value) \in DOMAIN reg.handlers[r]
    THEN [registry |-> reg,
          ret |-> Ok(reg.handlers[r][HandlerKey(type_hint, constraints, type_hint_value)], <<>>)]
    ELSE IF IsPinnedForm(resolve_type_hint(type_hint))
    THEN IF type_hint_value = Empty THEN [registry |-> reg, ret |-> Raise("ValueError")]
         ELSE GetHandlerMiss(reg, r, resolve_type_hint(type_hint), constraints, type_hint_value)
    ELSE GetHandlerMiss(reg, r, resolve_type_hint(type_hint), constraints, Empty)

(***************************************************************************)
(* The registries as a state machine                                       *)
(***************************************************************************)
MaxOps == 3            \* calls made on the registries

\* the Constraints objects callers hold: the empty one, and two that hold
\* the same constraint
CallerConstraints ==
    {ConstraintsEmpty, ConstraintsObject(1, <<ConstraintC1>>),
     ConstraintsObject(2, <<ConstraintC1>>)}
PinnedValues == {Empty, IntV(1)}
NoEntries == [k \in {} |-> NoClass]

\* the parent holds the first registrations, nothing is cached yet
RegistryInit ==
    /\ registry = [classes |-> [r \in Registries |->
                                    [t \in RegisteredTypes |->
                                        IF r = "parent" THEN "H1" ELSE NoClass]],
                   class_cache |-> [r \in Registries |-> NoEntries],
                   handlers |-> [r \in Registries |-> NoEntries],
                   next |-> 3]
    /\ registryCall = [log |-> <<>>]
    /\ HandlersIdle
    /\ LeafIdle /\ PatchesIdle /\ InstanceIdle /\ PointerIdle

Logged(entry, done) ==
    /\ registry' = done.registry
    /\ registryCall' = [log |-> Append(registryCall.log, [entry EXCEPT !.ret = done.ret])]
    /\ UNCHANGED <<numberVars, unionVars, modelVars, codecVars,
                   leafVars, patchVars, instanceVars, jsonPointer>>

RegisterTypeHandler ==
    /\ Len(registryCall.log) < MaxOps
    /\ \E r \in Registries, class \in HandlerClasses, t \in RegisteredTypes :
          Logged([op |-> "register_type_handler", r |-> r, type_hint |-> t, class |-> class,
                  constraints |-> ConstraintsEmpty, type_hint_value |-> Empty, ret |-> Idle],
                 register_type_handler(registry, r, class, t))

GetTypeHandlerClass ==
    /\ Len(registryCall.log) < MaxOps
    /\ \E r \in Registries, t \in TypeHints :
          Logged([op |-> "get_type_handler_class", r |-> r, type_hint |-> t, class |-> NoClass,
                  constraints |-> ConstraintsEmpty, type_hint_value |-> Empty, ret |-> Idle],
                 get_type_handler_class(registry, r, resolve_type_hint(t)))

GetTypeHandlerCall ==
    /\ Len(registryCall.log) < MaxOps
    /\ \E r \in Registries, t \in TypeHints, c \in CallerConstraints, v \in PinnedValues :
          Logged([op |-> "get_type_handler", r |-> r, type_hint |-> t, class |-> NoClass,
                  constraints |-> c, type_hint_value |-> v, ret |-> Idle],
                 get_type_handler(registry, r, t, c, v))

RegistryNext == RegisterTypeHandler \/ GetTypeHandlerClass \/ GetTypeHandlerCall
SpecRegistry == RegistryInit /\ [][RegistryNext]_vars

RegistryLog == IF registryCall = Idle THEN <<>> ELSE registryCall.log
\* the class a lookup through registry r should find: the one registered
\* last in r for the type, or else in its parent
LatestClassIn(r, thr) ==
    IF FoundOption(registry.classes[r], thr) # 0
    THEN registry.classes[r][TypeHintOptions(thr)[FoundOption(registry.classes[r], thr)]]
    ELSE NoClass
LatestClass(r, thr) ==
    IF LatestClassIn(r, thr) # NoClass \/ Len(ParentsOf(r)) = 0 THEN LatestClassIn(r, thr)
    ELSE LatestClassIn(ParentsOf(r)[1], thr)
LastCall == RegistryLog[Len(RegistryLog)]

\* C15: after any interleaving of registrations and lookups on a registry and
\* its parent, every registration completes normally, and every lookup of a
\* type that comes after returns the class registered last for it (or an
\* instance of that class), never a class or instance cached before.
C15_LatestRegistration ==
    Len(RegistryLog) > 0 =>
        CASE LastCall.op = "register_type_handler" -> LastCall.ret.raised = "none"
          [] LastCall.op = "get_type_handler_class" ->
                LastCall.ret.raised = "none" =>
                    LastCall.ret.value = LatestClass(LastCall.r, resolve_type_hint(LastCall.type_hint))
          [] LastCall.op = "get_type_handler" ->
                LastCall.ret.raised = "none" =>
                    LastCall.ret.value.class =
                        LatestClass(LastCall.r, resolve_type_hint(LastCall.type_hint))

NoRegistrationBetween(i, j) ==
    \A k \in (i + 1)..(j - 1) : RegistryLog[k].op # "register_type_handler"
SameRequest(x, y) ==
    /\ x.op = "get_type_handler" /\ y.op = "get_type_handler"
    /\ x.ret.raised = "none" /\ y.ret.raised = "none"
    /\ x.r = y.r /\ x.type_hint = y.type_hint
    /\ x.constraints.content = y.constraints.content

\* C16: with no registration in between, two get_type_handler calls with the
\* same type hint, constraints and pinned value return the same handler
\* object, and for a type that is no ClassVar / Final two calls that differ
\* only in the pinned value do too: one instance per (type, constraints).
C16_OneHandlerPerRequest ==
    \A i, j \in 1..Len(RegistryLog) :
        (i < j /\ SameRequest(RegistryLog[i], RegistryLog[j]) /\ NoRegistrationBetween(i, j)
         /\ (RegistryLog[i].type_hint_value = RegistryLog[j].type_hint_value
             \/ ~IsPinnedForm(resolve_type_hint(RegistryLog[i].type_hint))))
            => RegistryLog[i].ret.value.id = RegistryLog[j].ret.value.id

(***************************************************************************)
(* JsonPointer.path and JsonPath.matches  (_pointers.py)                   *)
(***************************************************************************)
\* str(i) for an int i >= 0
DecimalDigit(d) ==
    CASE d = 0 -> "0" [] d = 1 -> "1" [] d = 2 -> "2" [] d = 3 -> "3" [] d = 4 -> "4"
      [] d = 5 -> "5" [] d = 6 -> "6" [] d = 7 -> "7" [] d = 8 -> "8" [] d = 9 -> "9"
RECURSIVE DecimalOf(_)
DecimalOf(i) == IF i < 10 THEN <<DecimalDigit(i)>>
                ELSE Append(DecimalOf(i \div 10), DecimalDigit(i % 10))
DecimalChars == {DecimalDigit(d) : d \in 0..9}
WordChars == DecimalChars \cup {"a", "b", "_"}

\* the parts of a pointer: the root part "", then the atoms
RootParts == <<StrV(<<>>)>>
IsIndexPart(part) == part.t = "int"
Bracketed(part) == <<"[">> \o DecimalOf(part.i) \o <<"]">>
\* "[{part}]" if isinstance(part, int) else part
RenderPart(part) == IF IsIndexPart(part) THEN Bracketed(part) ELSE part.s
\* ".".join(...)
RECURSIVE JoinDots(_)
JoinDots(rendered) ==
    IF Len(rendered) = 0 THEN <<>>
    ELSE IF Len(rendered) = 1 THEN Head(rendered)
    ELSE Head(rendered) \o <<".">> \o JoinDots(Tail(rendered))
\* JsonPointer.path
JsonPointerPath(parts) ==
    CASE Len(parts) = 1 -> <<"$">>
      [] Len(parts) = 2 ->
            IF IsIndexPart(parts[2]) THEN <<"$">> \o Bracketed(parts[2])
            ELSE <<"$", ".">> \o parts[2].s
      [] Len(parts) = 3 ->
            IF IsIndexPart(parts[2])
            THEN IF IsIndexPart(parts[3])
                 THEN <<"$">> \o Bracketed(parts[2]) \o Bracketed(parts[3])
                 ELSE <<"$">> \o Bracketed(parts[2]) \o <<".">> \o parts[3].s
            ELSE IF IsIndexPart(parts[3])
                 THEN <<"$", ".">> \o parts[2].s \o <<".">> \o Bracketed(parts[3])
                 ELSE <<"$", ".">> \o parts[2].s \o <<".">> \o parts[3].s
      [] OTHER -> <<"$">> \o JoinDots([k \in 1..Len(parts) |-> RenderPart(parts[k])])

\* str.replace on sequences of characters
IsPrefix(old, chars) == Len(old) <= Len(chars) /\ SubSeq(chars, 1, Len(old)) = old
RECURSIVE Replace(_, _, _)
Replace(chars, old, new) ==
    IF Len(chars) = 0 THEN <<>>
    ELSE IF IsPrefix(old, chars)
    THEN new \o Replace(SubSeq(chars, Len(old) + 1, Len(chars)), old, new)
    ELSE <<Head(chars)>> \o Replace(Tail(chars), old, new)
Contains(chars, sub) ==
    \E k \in 1..(Len(chars) + 1) : IsPrefix(sub, SubSeq(chars, k, Len(chars)))
Backslash == "\\"
\* the chain of replacements of JsonPath._build, in its order
PathRegex(str) ==
    Replace(Replace(Replace(Replace(Replace(Replace(Replace(Replace(Replace(str,
        <<" ">>, <<>>),
        <<"$">>, <<Backslash, "$">>),
        <<",">>, <<"|">>),
        <<".">>, <<Backslash, ".">>),
        <<"[">>, <<Backslash, "[">>),
        <<"]">>, <<Backslash, "]">>),
        <<Backslash, ".", "*">>, <<Backslash, ".", Backslash, "w", "+">>),
        <<Backslash, ".", Backslash, ".">>, <<".", "*">>),
        <<Backslash, "[", "*", Backslash, "]">>,
        <<Backslash, "[", Backslash, "d", "+", Backslash, "]">>)

\* the regular expressions these replacements produce: escaped characters,
\* \w, \d and . with an optional + or *, alternatives separated by |
RegexAtom(chars) ==
    IF Head(chars) = Backslash
    THEN [kind |-> IF chars[2] = "w" THEN "word" ELSE IF chars[2] = "d" THEN "digit" ELSE "lit",
          ch |-> chars[2], size |-> 2]
    ELSE IF Head(chars) = "." THEN [kind |-> "any", ch |-> ".", size |-> 1]
    ELSE [kind |-> "lit", ch |-> Head(chars), size |-> 1]
RECURSIVE RegexTokens(_)
RegexTokens(chars) ==
    IF Len(chars) = 0 THEN <<>>
    ELSE IF Len(chars) > RegexAtom(chars).size
            /\ chars[RegexAtom(chars).size + 1] \in {"+", "*"}
    THEN <<[kind |-> RegexAtom(chars).kind, ch |-> RegexAtom(chars).ch,
            q |-> chars[RegexAtom(chars).size + 1]]>>
         \o RegexTokens(SubSeq(chars, RegexAtom(chars).size + 2, Len(chars)))
    ELSE <<[kind |-> RegexAtom(chars).kind, ch |-> RegexAtom(chars).ch, q |-> "1"]>>
         \o RegexTokens(SubSeq(chars, RegexAtom(chars).size + 1, Len(chars)))
Fits(token, c) ==
    CASE token.kind = "lit" -> c = token.ch
      [] token.kind = "word" -> c \in WordChars
      [] token.kind = "digit" -> c \in DecimalChars
      [] token.kind = "any" -> TRUE
RECURSIVE FullMatch(_, _)
FullMatch(tokens, chars) ==
    IF Len(tokens) = 0 THEN Len(chars) = 0
    ELSE CASE Head(tokens).q = "1" ->
                Len(chars) > 0 /\ Fits(Head(tokens), Head(chars))
                /\ FullMatch(Tail(tokens), Tail(chars))
           [] Head(tokens).q = "+" ->
                Len(chars) > 0 /\ Fits(Head(tokens), Head(chars))
                /\ FullMatch(<<[Head(tokens) EXCEPT !.q = "*"]>> \o Tail(tokens), Tail(chars))
           [] Head(tokens).q = "*" ->
                \/ FullMatch(Tail(tokens), chars)
                \/ Len(chars) > 0 /\ Fits(Head(tokens), Head(chars))
                   /\ FullMatch(tokens, Tail(chars))
\* the alternatives of a regular expression
RECURSIVE Alternatives(_, _, _)
Alternatives(chars, current, done) ==
    IF Len(chars) = 0 THEN Append(done, current)
    ELSE IF Head(chars) = "|" THEN Alternatives(Tail(chars), <<>>, Append(done, current))
    ELSE Alternatives(Tail(chars), Append(current, Head(chars)), done)
RegexFullMatch(regex, chars) ==
    \E k \in 1..Len(Alternatives(regex, <<>>, <<>>)) :
        FullMatch(RegexTokens(Alternatives(regex, <<>>, <<>>)[k]), chars)

DotDot == <<".", ".">>
\* _build: a path "..x.." is a contains check; the attribute it stores the
\* text in is no slot of the class
IsContainsPath(str) ==
    /\ Len(str) >= 2 /\ IsPrefix(DotDot, str) /\ SubSeq(str, Len(str) - 1, Len(str)) = DotDot
    /\ ~\E sub \in {<<",">>, <<"*">>, DotDot} : Contains(SubSeq(str, 3, Len(str) - 2), sub)
IsPatternPath(str) == \E sub \in {<<",">>, <<"*">>, DotDot} : Contains(str, sub)
\* JsonPath(str).matches(pointer)
JsonPathMatches(str, parts) ==
    IF IsContainsPath(str) THEN Raise("AttributeError")
    ELSE IF ~IsPatternPath(str) THEN Ok(BoolV(str = JsonPointerPath(parts)), <<>>)
    ELSE Ok(BoolV(RegexFullMatch(PathRegex(str), JsonPointerPath(parts))), <<>>)

(***************************************************************************)
(* A pointer as a state machine                                            *)
(***************************************************************************)
MaxDepth == 3          \* atoms below the root
MaxIndex == 12         \* largest integer atom

NameB == <<"b">>
PointerAtoms == {StrV(NameA), StrV(NameB), IntV(0), IntV(MaxIndex)}
\* '$.a[*].b', '$.a', '$.*', '$..', '$[*]', '$.a,$.b'
PathPatterns ==
    {<<"$", ".", "a", "[", "*", "]", ".", "b">>, <<"$", ".", "a">>, <<"$", ".", "*">>,
     <<"$", ".", ".">>, <<"$", "[", "*", "]">>, <<"$", ".", "a", ",", "$", ".", "b">>,
     <<".", ".", "a", ".", ".">>}
NeverMatched == [path |-> <<>>, ret |-> Idle]

\* JsonPointer.root
PointerInit ==
    /\ jsonPointer = [parts |-> RootParts, _path |-> NoneV, matched |-> NeverMatched]
    /\ HandlersIdle
    /\ LeafIdle /\ RegistryIdle /\ PatchesIdle /\ InstanceIdle

\* pointer.join(atom): the pointer one level down
PointerJoin ==
    /\ Len(jsonPointer.parts) <= MaxDepth
    /\ \E atom \in PointerAtoms :
          jsonPointer' = [parts |-> Append(jsonPointer.parts, atom), _path |-> NoneV,
                          matched |-> NeverMatched]
    /\ UNCHANGED <<numberVars, unionVars, modelVars, codecVars,
                   leafVars, registryVars, patchVars, instanceVars>>

\* pointer.path(): rendered once, then kept in _path
PointerPath ==
    /\ jsonPointer' = [jsonPointer EXCEPT
                          !._path = IF @ = NoneV THEN StrV(JsonPointerPath(jsonPointer.parts))
                                    ELSE @]
    /\ UNCHANGED <<numberVars, unionVars, modelVars, codecVars,
                   leafVars, registryVars, patchVars, instanceVars>>

\* JsonPath(str).matches(pointer), which asks the pointer for its path
PointerMatched ==
    /\ \E str \in PathPatterns :
          jsonPointer' = [jsonPointer EXCEPT
                            !._path = IF IsContainsPath(str) THEN @
                                      ELSE IF @ = NoneV
                                      THEN StrV(JsonPointerPath(jsonPointer.parts)) ELSE @,
                            !.matched = [path |-> str,
                                         ret |-> JsonPathMatches(str, jsonPointer.parts)]]
    /\ UNCHANGED <<numberVars, unionVars, modelVars, codecVars,
                   leafVars, registryVars, patchVars, instanceVars>>

PointerNext == PointerJoin \/ PointerPath \/ PointerMatched
SpecPointer == PointerInit /\ [][PointerNext]_vars

\* '$', then '.name' for a string atom and '[i]' for an integer atom
RECURSIVE DotBracket(_)
DotBracket(atoms) ==
    IF Len(atoms) = 0 THEN <<>>
    ELSE (IF Head(atoms).t = "int" THEN <<"[">> \o DecimalOf(Head(atoms).i) \o <<"]">>
          ELSE <<".">> \o Head(atoms).s)
         \o DotBracket(Tail(atoms))
PointerRendered == jsonPointer # Idle /\ jsonPointer._path # NoneV
WildcardPath == <<"$", ".", "a", "[", "*", "]", ".", "b">>
IsElementOfA(parts) ==
    Len(parts) = 4 /\ parts[2] = StrV(NameA) /\ parts[3].t = "int" /\ parts[4] = StrV(NameB)

\* C18: the rendered path of a pointer of any depth is '$' followed, atom by
\* atom, by '.name' for a string atom and '[i]' for an integer atom, so the
\* path '$.a[*].b' matches the pointer root -> a -> i -> b for every index i.
C18_PointerRendering ==
    /\ PointerRendered =>
          jsonPointer._path.s = <<"$">> \o DotBracket(Tail(jsonPointer.parts))
    /\ (jsonPointer # Idle /\ jsonPointer.matched.path = WildcardPath
        /\ IsElementOfA(jsonPointer.parts))
          => jsonPointer.matched.ret = Ok(BoolV(TRUE), <<>>)

(***************************************************************************)
(* Patches  (_patches.py)                                                  *)
(***************************************************************************)
\* a patch as the caller writes it: (path, value), (path, value, x) or
\* (path, value, x, y)
PatchArg(path, value, rest) == [path |-> path, value |-> value, rest |-> rest]
\* the match statement of __new__: the names in the third and fourth place
\* are capture patterns, so a 3-tuple always binds its third item to format
PatchFull(arg) ==
    [path |-> arg.path, value |-> arg.value,
     format |-> IF Len(arg.rest) >= 1 THEN arg.rest[1] ELSE "source",
     mode |-> IF Len(arg.rest) = 2 THEN arg.rest[2] ELSE "value"]
\* Patches(*args): nargs, kept in the order given
PatchesNew(args) ==
    [nargs |-> [k \in 1..Len(args) |-> PatchFull(args[k])], _cache |-> NoEntries]
\* self._patches.get((format_type, mode))
PatchesFor(nargs, format_type, mode) ==
    SelectSeq(nargs, LAMBDA full : full.format = format_type /\ full.mode = mode)
MISSING == [t |-> "MISSING"]
\* the scan of patch(): the value of the first patch whose path matches
RECURSIVE FirstMatch(_, _)
FirstMatch(list, parts) ==
    IF Len(list) = 0 THEN Ok(MISSING, <<>>)
    ELSE IF JsonPathMatches(Head(list).path, parts).raised # "none"
    THEN JsonPathMatches(Head(list).path, parts)
    ELSE IF JsonPathMatches(Head(list).path, parts).value.b THEN Ok(Head(list).value, <<>>)
    ELSE FirstMatch(Tail(list), parts)
PatchKey(format_type, mode, parts) == <<format_type, mode, parts>>
\* what patch() returns for the patch value found
PatchAnswer(patch_value, value) == IF patch_value # MISSING THEN patch_value ELSE value
\* patch() on a cache miss, given the scan's result
PatchScanned(obj, key, value, scanned) ==
    IF scanned.raised # "none" THEN [patches |-> obj, ret |-> scanned]
    ELSE [patches |-> [obj EXCEPT !._cache = (key :> scanned.value) @@ @],
          ret |-> Ok(PatchAnswer(scanned.value, value), <<>>)]
\* Patches.patch
PatchesPatch(obj, format_type, mode, parts, value) ==
    IF Len(PatchesFor(obj.nargs, format_type, mode)) = 0
    THEN [patches |-> obj, ret |-> Ok(value, <<>>)]
    ELSE IF PatchKey(format_type, mode, parts) \in DOMAIN obj._cache
    THEN [patches |-> obj,
          ret |-> Ok(PatchAnswer(obj._cache[PatchKey(format_type, mode, parts)], value), <<>>)]
    ELSE PatchScanned(obj, PatchKey(format_type, mode, parts), value,
                      FirstMatch(PatchesFor(obj.nargs, format_type, mode), parts))

(***************************************************************************)
(* A Patches object as a state machine                                     *)
(***************************************************************************)
MaxPatches == 2        \* patches given to one Patches object

PatchStages == {"source", "target"}
PatchModes == {"value", "key"}
\* the tuple forms of T_Patch
PatchRests ==
    {<<>>} \cup {<<f>> : f \in PatchStages} \cup {<<m>> : m \in PatchModes}
    \cup {<<f, m>> : f \in PatchStages, m \in PatchModes}
PatchPaths == {<<"$", ".", "a">>, <<"$", ".", "*">>}
\* the k-th patch of a declaration replaces by the value 10 + k
PatchDeclarations ==
    UNION {{[k \in 1..n |-> PatchArg(ps[k], IntV(10 + k), rs[k])] :
                ps \in [1..n -> PatchPaths], rs \in [1..n -> PatchRests]} : n \in 1..MaxPatches}
PatchPointers == {Append(RootParts, StrV(NameA)), Append(RootParts, StrV(NameB))}

PatchesInit ==
    /\ patches \in {PatchesNew(d) @@ [declared |-> d] : d \in PatchDeclarations}
    /\ patchCall = [pc |-> "none"]
    /\ HandlersIdle
    /\ LeafIdle /\ RegistryIdle /\ InstanceIdle /\ PointerIdle

PatchDone(entry, done) ==
    /\ patches' = done.patches @@ [declared |-> patches.declared]
    /\ patchCall' = [entry EXCEPT !.ret = done.ret]
    /\ UNCHANGED <<numberVars, unionVars, modelVars, codecVars,
                   leafVars, registryVars, instanceVars, jsonPointer>>

\* patches.patch(format_type, mode, pointer, 1)
PatchCall ==
    \E f \in PatchStages, m \in PatchModes, parts \in PatchPointers :
        PatchDone([pc |-> "patched", format_type |-> f, mode |-> m, pointer |-> parts,
                   value |-> IntV(1), memoized |-> PatchKey(f, m, parts) \in DOMAIN patches._cache,
                   ret |-> Idle],
                  PatchesPatch([nargs |-> patches.nargs, _cache |-> patches._cache],
                               f, m, parts, IntV(1)))

PatchNext == PatchCall
SpecPatches == PatchesInit /\ [][PatchNext]_vars

\* the stage and mode a patch is written for: (path, value, 'key') is a
\* key patch of the source stage
WrittenStage(arg) ==
    IF Len(arg.rest) >= 1 /\ arg.rest[1] \in PatchStages THEN arg.rest[1] ELSE "source"
WrittenMode(arg) ==
    IF Len(arg.rest) >= 1 /\ arg.rest[Len(arg.rest)] \in PatchModes
    THEN arg.rest[Len(arg.rest)] ELSE "value"
Applies(arg, format_type, mode, parts) ==
    /\ WrittenStage(arg) = format_type /\ WrittenMode(arg) = mode
    /\ JsonPathMatches(arg.path, parts) = Ok(BoolV(TRUE), <<>>)
\* the replacement of the earliest patch that applies, or the value
EarliestPatch(declared, format_type, mode, parts, value) ==
    IF \E k \in 1..Len(declared) : Applies(declared[k], format_type, mode, parts)
    THEN declared[CHOOSE k \in 1..Len(declared) :
                    /\ Applies(declared[k], format_type, mode, parts)
                    /\ \A j \in 1..(k - 1) : ~Applies(declared[j], format_type, mode, parts)].value
    ELSE value
Patched == patchCall # Idle /\ patchCall.pc = "patched"

\* C17: every patch(stage, mode, pointer, value) call returns the replacement
\* of the earliest-listed patch written for that stage and mode whose path
\* matches the pointer, or the value itself when there is none; patches of
\* another stage or mode never apply; memoized or not, the result is the same.
C17_FirstMatchWins ==
    Patched =>
        patchCall.ret = Ok(EarliestPatch(patches.declared, patchCall.format_type,
                                         patchCall.mode, patchCall.pointer, patchCall.value),
                           <<>>)

(***************************************************************************)
(* Record instances: construction, attribute assignment and deletion,      *)
(* hash, equality, get_setted  (_struct.py)                                *)
(***************************************************************************)
\* @struct(frozen=..., kw_only=...) on a class with these fields
InstanceClass(fields, frozen, kw_only) ==
    StructClass("R", fields, <<>>) @@ [frozen |-> frozen, kw_only |-> kw_only]

\* get_setted: the _setted_ attribute, the empty frozenset when it is absent
\* (StructV keeps an absent _setted_ as the empty set)
get_setted(v) == v.setted

\* Python's binding of cls(*args, **kwargs) to the generated signature
\* __init__(self, [*,] f0, f1, ...): positionals go to the first fields, and
\* are a TypeError behind the '*' of a keyword-only class or when a keyword
\* names the same field again
BindArguments(cls, args, kwargs) ==
    IF cls.kw_only /\ Len(args) > 0 THEN Raise("TypeError")
    ELSE IF Len(args) > Len(cls.fields) THEN Raise("TypeError")
    ELSE IF \E k \in 1..Len(args) : DictHas(kwargs, cls.fields[k].name)
    THEN Raise("TypeError")
    ELSE Ok([k \in 1..Len(args) |-> <<cls.fields[k].name, args[k]>>] \o kwargs, <<>>)

\* cls(*args, **kwargs)
InstanceNew(cls, args, kwargs) ==
    LET bound == BindArguments(cls, args, kwargs)
    IN IF bound.raised # "none" THEN bound ELSE StructNew(cls, bound.value)

\* hash(int) is the int; hash of a tuple mixes the hashes of its items in order
RECURSIVE TupleHash(_)
TupleHash(items) ==
    IF items = <<>> THEN 7
    ELSE (TupleHash(SubSeq(items, 1, Len(items) - 1)) * 31
          + items[Len(items)].i) % 65521

\* the tuple (self.f0, self.f1, ...) the generated methods read; a deleted
\* attribute makes the read an AttributeError
FieldTuple(cls, obj) == [k \in 1..Len(cls.fields) |-> obj.f[cls.fields[k].name]]
HasAllFields(cls, obj) == \A k \in 1..Len(cls.fields) : obj.f[cls.fields[k].name] # Empty

\* an answer of an operation on the instance: what it returned or raised,
\* and the instance afterwards
Answered(inst, ret) == [inst |-> inst, ret |-> ret]

\* object.__setattr__ / object.__delattr__ on the instance dict
ObjectSetattr(inst, name, value) ==
    IF name \in DOMAIN inst.obj.f
    THEN Answered([inst EXCEPT !.obj.f[name] = value], Ok(NoneV, <<>>))
    ELSE Answered([inst EXCEPT !.attrs = DictSet(@, name, value)], Ok(NoneV, <<>>))
ObjectDelattr(inst, name) ==
    IF name \in DOMAIN inst.obj.f
    THEN IF inst.obj.f[name] = Empty THEN Answered(inst, Raise("AttributeError"))
         ELSE Answered([inst EXCEPT !.obj.f[name] = Empty], Ok(NoneV, <<>>))
    ELSE IF ~DictHas(inst.attrs, name) THEN Answered(inst, Raise("AttributeError"))
    ELSE Answered([inst EXCEPT !.attrs = SelectSeq(@, LAMBDA kv : kv[1] # name)],
                  Ok(NoneV, <<>>))

\* the same method with the raise left out
frozen_setattr_assigns(inst, name, value) == ObjectSetattr(inst, name, value)
\* __frozen_setattr__: an instance of the class itself takes no assignment
\* at all, an instance of a subclass none to a field name
frozen_setattr(inst, name, value) ==
    IF ~inst.subclass \/ name \in SeqToSet(get_names(inst.cls))
    THEN Answered(inst, Raise("FrozenInstanceError"))
    ELSE ObjectSetattr(inst, name, value)
\* __frozen_delattr__
frozen_delattr(inst, name) ==
    IF ~inst.subclass \/ name \in SeqToSet(get_names(inst.cls))
    THEN Answered(inst, Raise("FrozenInstanceError"))
    ELSE ObjectDelattr(inst, name)

\* instance.name = value / del instance.name: the class's __setattr__ and
\* __delattr__ are the frozen ones only for a frozen class
Setattr(inst, name, value) ==
    IF inst.cls.frozen THEN frozen_setattr(inst, name, value)
    ELSE ObjectSetattr(inst, name, value)
Delattr(inst, name) ==
    IF inst.cls.frozen THEN frozen_delattr(inst, name) ELSE ObjectDelattr(inst, name)

\* the generated __hash__: a frozen class memoizes in _frozen_hash_
InstanceHashOf(inst) ==
    IF inst.cls.frozen /\ inst.frozen_hash # Empty
    THEN Answered(inst, Ok(inst.frozen_hash, <<>>))
    ELSE IF ~HasAllFields(inst.cls, inst.obj) THEN Answered(inst, Raise("AttributeError"))
    ELSE LET h == IntV(TupleHash(FieldTuple(inst.cls, inst.obj)))
         IN Answered(IF inst.cls.frozen THEN [inst EXCEPT !.frozen_hash = h] ELSE inst,
                     Ok(h, <<>>))

\* the generated __eq__(self, other), other an instance of the same class
InstanceEqOf(inst, other) ==
    IF ~HasAllFields(inst.cls, inst.obj) THEN Answered(inst, Raise("AttributeError"))
    ELSE Answered(inst, Ok(BoolV(\A k \in 1..Len(inst.cls.fields) :
                               inst.obj.f[inst.cls.fields[k].name]
                                   = other.f[inst.cls.fields[k].name]), <<>>))

NameR == <<"r">>                  \* no field of the classes below
DefaultB == IntV(0)
FieldLists ==
    {<<Field(NameA, "int", Empty), Field(NameB, "int", Empty)>>,
     <<Field(NameA, "int", Empty), Field(NameB, "int", DefaultB)>>}
InstanceClasses ==
    {InstanceClass(fl, frozen, kw_only) : fl \in FieldLists, frozen \in BOOLEAN,
                                          kw_only \in BOOLEAN}
InstanceValues == {IntV(1), IntV(2)}
AttrNames == {NameA, NameB, NameR}
\* the calls cls(), cls(1), cls(1, 2), cls(a=..), cls(1, b=..), cls(b=.., a=..), ...
PositionalArgs == {<<>>, <<IntV(1)>>, <<IntV(1), IntV(2)>>}
KeywordArgs ==
    {<<>>, <<<<NameA, IntV(1)>>>>, <<<<NameB, IntV(2)>>>>,
     <<<<NameA, IntV(1)>>, <<NameB, IntV(2)>>>>, <<<<NameB, IntV(1)>>, <<NameA, IntV(2)>>>>}

\* the instance right after a construction that succeeded; passed is the
\* set of arguments the call named or placed, twin the field values of a
\* second instance built by the same call
Constructed(cls, subclass, args, kwargs) ==
    LET made == InstanceNew(cls, args, kwargs)
    IN [cls |-> cls, subclass |-> subclass, obj |-> made.value,
        passed |-> {cls.fields[k].name : k \in 1..Len(args)} \cup DictKeys(kwargs),
        twin |-> made.value, frozen_hash |-> Empty, attrs |-> <<>>]

InstanceInit ==
    /\ instance \in {Constructed(cls, subclass, args, kwargs) :
                        cls \in InstanceClasses, subclass \in BOOLEAN,
                        args \in PositionalArgs,
                        kwargs \in KeywordArgs}
    /\ instance.obj # Empty
    /\ instanceCall = [op |-> "new", name |-> <<>>, value |-> Empty, ret |-> Ok(NoneV, <<>>)]
    /\ HandlersIdle /\ LeafIdle /\ RegistryIdle /\ PatchesIdle /\ PointerIdle

InstanceDone(op, name, value, answer) ==
    /\ instance' = answer.inst
    /\ instanceCall' = [op |-> op, name |-> name, value |-> value, ret |-> answer.ret]
    /\ UNCHANGED <<numberVars, unionVars, modelVars, codecVars,
                   leafVars, registryVars, patchVars, jsonPointer>>

InstanceSetattr ==
    \E name \in AttrNames, value \in InstanceValues :
        InstanceDone("setattr", name, value, Setattr(instance, name, value))
InstanceDelattr ==
    \E name \in AttrNames : InstanceDone("delattr", name, Empty, Delattr(instance, name))
InstanceHash == InstanceDone("hash", <<>>, Empty, InstanceHashOf(instance))
InstanceEq == InstanceDone("eq", <<>>, Empty, InstanceEqOf(instance, instance.twin))
InstanceGetSetted ==
    InstanceDone("get_setted", <<>>, Empty,
                 Answered(instance, Ok([t |-> "frozenset", items |-> get_setted(instance.obj)],
                                       <<>>)))

InstanceNext ==
    \/ InstanceSetattr
    \/ InstanceDelattr
    \/ InstanceHash
    \/ InstanceEq
    \/ InstanceGetSetted
SpecInstance == InstanceInit /\ [][InstanceNext]_vars

\* C19: whatever the record type and the construction call, get_setted of
\* the instance is the set of arguments the call passed and get_unsetted is
\* the other fields, at construction and after every later assignment.
C19_SettedIsPassed ==
    /\ get_setted(instance.obj) = instance.passed
    /\ get_unsetted(instance.cls, instance.obj)
           = SeqToSet(get_names(instance.cls)) \ instance.passed

\* C20: on a frozen record instance every assignment to and deletion of a
\* declared field name raises FrozenInstanceError, and the field values,
\* the equality with an equal instance and the hash stay what they were at
\* construction.
DeclaredNames == SeqToSet(get_names(instance.cls))
FrozenAttempt ==
    /\ instance.cls.frozen
    /\ instanceCall.op \in {"setattr", "delattr"}
    /\ instanceCall.name \in DeclaredNames
MaxGroups == 3
NameC == <<"c">>
ChainNames == <<NameA, NameB, NameC, NameD>>
\* a record class with the optional fields a, b, c, d
RecordG(constraints) ==
    StructClass("G", [k \in 1..Len(ChainNames) |-> Field(ChainNames[k], "int", IntV(0))],
                constraints)
ChainGroups == {g \in SUBSET SeqToSet(ChainNames) : Cardinality(g) = 2}
\* @struct(constraints=[Dependent(..), ...]) with one to MaxGroups groups, in every order
RECURSIVE ChainDeclarations(_)
ChainDeclarations(n) ==
    IF n = 0 THEN {<<>>}
    ELSE LET shorter == ChainDeclarations(n - 1)
         IN shorter \cup {Append(d, Dependent(g)) : d \in {x \in shorter : Len(x) = n - 1},
                                                      g \in ChainGroups}
ChainClasses == {RecordG(d) : d \in ChainDeclarations(MaxGroups) \ {<<>>}}
ChainDicts == {DictV(<<>>), DictV(<<<<NameA, IntV(1)>>>>)}
ChainConfigs == {Config("json", "json", ValidateConvert, "forbid")}

ChainInit == ModelInitOver(ChainClasses, ChainDicts, ChainConfigs)
ChainNext == ModelHandleCall
SpecChain == ChainInit /\ [][ChainNext]_vars

\* the connected component of s among the groups, under 'shares a field'
RECURSIVE ComponentOf(_, _)
ComponentOf(s, groups) ==
    LET grown == s \cup UNION {g \in groups : g \cap s # {}}
    IN IF grown = s THEN s ELSE ComponentOf(grown, groups)
Components(groups) == {ComponentOf(g, groups) : g \in groups}
DeclaredDependent ==
    {modelHandler.type_hint.declared[k].field_names :
        k \in {j \in 1..Len(modelHandler.type_hint.declared) :
                 modelHandler.type_hint.declared[j].constraint_type = "dependent"}}

\* C21: once the record handler is built, its effective dependent groups are
\* the connected components of the declared dependent groups under 'shares a
\* field', whatever the order of declaration.
C21_DependentComponents ==
    modelHandler.prebuilt =>
        modelHandler.built.dependent_groups_names = Components(DeclaredDependent)

(***************************************************************************)
(* The config handed to the root handler.                                  *)
(***************************************************************************)
\* the config of the call that reached the root handler
ConfigHanded == CodecCalled /\ codecCall.ret.handled
ConfigFlagsOfCall ==
    /\ codecCall.ret.config.coerce = codecCall.args.coerce
    /\ codecCall.ret.config.validate = codecCall.args.validate
    /\ codecCall.ret.config.convert = codecCall.args.convert
    /\ codecCall.ret.config.include = codecCall.args.include
    /\ codecCall.ret.config.exclude = codecCall.args.exclude
    /\ codecCall.ret.config.exclude_none = codecCall.args.exclude_none
    /\ codecCall.ret.config.exclude_unset = codecCall.args.exclude_unset
    /\ codecCall.ret.config.exclude_default = codecCall.args.exclude_default
    /\ codecCall.ret.config.extras_mode = codecCall.args.extras_mode

\* C22: the config handed to the root handler has every field equal to the
\* call's arguments, its source and target each one of json, unstruct and
\* struct (the text and stream formats translated to json), whatever calls
\* the codec served before.
C22_ConfigOfTheCall ==
    ConfigHanded =>
        /\ ConfigFlagsOfCall
        /\ codecCall.ret.config.source \in Formats
        /\ codecCall.ret.config.target \in Formats
        /\ codecCall.args.source # Unset =>
              codecCall.ret.config.source = format_translation(codecCall.args.source)
        /\ codecCall.args.target # Unset =>
              codecCall.ret.config.target = format_translation(codecCall.args.target)

(***************************************************************************)
(* The handlers' answer for an excluded, not included or empty input       *)
(* (scalars.py, sequences.py, mappings.py, unions.py, models.py)           *)
(***************************************************************************)
\* NoneHandler.handle
NoneHandle(value, pointer, included, excluded, config) ==
    IF ~included \/ excluded \/ value = Empty THEN Ok(Empty, <<>>)
    ELSE IF value.t = "none" THEN Ok(value, <<>>)
    ELSE IF config.source = "json"
         THEN Ok(value, <<JsonTypeIssue(value, pointer, "null")>>)
         ELSE Ok(value, <<StructTypeIssue(value, pointer, "None")>>)

\* hasattr(value, "__iter__") and what iterating the value yields
HasIter(value) == value.t \in {"list", "dict", "str"}
IterItems(value) ==
    CASE value.t = "list" -> value.l
      [] value.t = "dict" -> [k \in 1..Len(value.m) |-> StrV(value.m[k][1])]
      [] value.t = "str" -> [k \in 1..Len(value.s) |-> StrV(<<value.s[k]>>)]

\* the type check that opens SequenceHandler.handle (ListHandler: both
\* classes are list)
SequenceTypeRejected(value, config) ==
    IF config.source = "json" THEN value.t # "list"
    ELSE IF config.coerce /\ HasIter(value) THEN FALSE
    ELSE value.t # "list"

\* the generator over zip(self._item_type_handlers, cvalue) for list[int]:
\* an item whose pointer is excluded, that is Empty or that its handler
\* answers with Empty is left out; the issues of the others are collected
RECURSIVE SequenceLoop(_, _, _, _)
SequenceLoop(items, k, ctx, acc) ==
    IF k > Len(items) \/ acc.raised # "none" THEN acc
    ELSE LET item_pointer == Join(ctx.pointer, DecimalOf(k - 1))   \* the index, as the path spells it
             item_excluded == PathMatches(ctx.config.exclude, item_pointer)
             item_results ==
                 IntHandle(<<>>, items[k], item_pointer,
                           ctx.included \/ PathMatches(ctx.config.include, item_pointer),
                           item_excluded, ctx.config)
         IN SequenceLoop(items, k + 1, ctx,
                IF item_excluded \/ items[k] = Empty THEN acc
                ELSE IF item_results.raised # "none"
                THEN [acc EXCEPT !.raised = item_results.raised]
                ELSE IF item_results.value = Empty THEN acc
                ELSE [acc EXCEPT !.kept = Append(@, item_results.value),
                                 !.issues = @ \o item_results.issues])

\* the return of a container: Empty only when nothing was kept
ContainerAnswer(value, cvalue, kept_any, issues, included, excluded, config) ==
    IF (included /\ ~excluded) \/ kept_any
    THEN IF config.convert \/ config.coerce THEN Ok(cvalue, issues) ELSE Ok(value, issues)
    ELSE Ok(Empty, issues)

\* SequenceHandler.handle of list[int] without constraints or patches
SequenceHandle(value, pointer, included, excluded, config) ==
    IF SequenceTypeRejected(value, config)
    THEN Ok(value, <<IF config.source = "json"
                     THEN JsonTypeIssue(value, pointer, "array")
                     ELSE StructTypeIssue(value, pointer,
                              IF config.coerce THEN "Iterable" ELSE "list")>>)
    ELSE LET looped == SequenceLoop(IterItems(value), 1,
                           [pointer |-> pointer, included |-> included, config |-> config],
                           [kept |-> <<>>, issues |-> <<>>, raised |-> "none"])
         IN IF looped.raised # "none" THEN Raise(looped.raised)
            ELSE ContainerAnswer(value, ListV(looped.kept), Len(looped.kept) > 0,
                                 looped.issues, included, excluded, config)

\* the type check that opens MappingHandler.handle (DictHandler): with
\* coerce anything with items passes, and a non-empty iterable whose first
\* item has length two; len() of an item without a length is a TypeError
HasLength(value) == value.t \in {"list", "dict", "str"}
LengthOfValue(value) ==
    CASE value.t = "list" -> Len(value.l)
      [] value.t = "dict" -> Len(value.m)
      [] value.t = "str" -> Len(value.s)
MappingTypeCheck(value, config) ==
    IF config.source = "json" THEN IF value.t # "dict" THEN "rejected" ELSE "passed"
    ELSE IF config.coerce /\ value.t = "dict" THEN "passed"
    ELSE IF config.coerce /\ value.t = "list" /\ Len(value.l) > 0
    THEN IF ~HasLength(value.l[1]) THEN "TypeError"
         ELSE IF LengthOfValue(value.l[1]) = 2 THEN "passed" ELSE "rejected"
    ELSE IF config.coerce /\ value.t = "str" /\ Len(value.s) > 0
    THEN "rejected"                    \* the first character has length one
    ELSE IF value.t # "dict" THEN "rejected" ELSE "passed"

\* getattr(cvalue, 'items', getattr(cvalue, '__iter__'))(): the items of a
\* dict, and the items of a list each unpacked into a key and a value
MappingItems(value) ==
    IF value.t = "dict"
    THEN [raised |-> "none", items |-> [k \in 1..Len(value.m) |->
                                           <<StrV(value.m[k][1]), value.m[k][2]>>]]
    ELSE IF \E k \in 1..Len(value.l) : ~HasIter(value.l[k])
    THEN [raised |-> "TypeError", items |-> <<>>]
    ELSE IF \E k \in 1..Len(value.l) : LengthOfValue(value.l[k]) # 2
    THEN [raised |-> "ValueError", items |-> <<>>]
    ELSE [raised |-> "none", items |-> [k \in 1..Len(value.l) |->
                                           <<IterItems(value.l[k])[1], IterItems(value.l[k])[2]>>]]

\* the generator over the items for dict[str, int]: the key goes to the str
\* handler and the value to the int handler, both at the key's pointer (the
\* keys of the inputs modelled are strings)
RECURSIVE MappingLoop(_, _, _, _)
MappingLoop(items, k, ctx, acc) ==
    IF k > Len(items) \/ acc.raised # "none" THEN acc
    ELSE LET key == items[k][1]
             val == items[k][2]
             key_pointer == Join(ctx.pointer, key.s)
             key_excluded == PathMatches(ctx.config.exclude, key_pointer)
             child_included == ctx.included \/ PathMatches(ctx.config.include, key_pointer)
             key_results == StrHandle(key, key_pointer, child_included,
                                      key_excluded, ctx.config)
             val_results == IntHandle(<<>>, val, key_pointer, child_included,
                                      key_excluded, ctx.config)
         IN MappingLoop(items, k + 1, ctx,
                IF val = Empty \/ (ctx.config.exclude_none /\ val = NoneV) \/ key_excluded
                THEN acc
                ELSE IF key_results.value = Empty THEN acc
                ELSE IF val_results.raised # "none"
                THEN [acc EXCEPT !.raised = val_results.raised]
                ELSE IF val_results.value = Empty
                THEN [acc EXCEPT !.issues = @ \o key_results.issues]
                ELSE [acc EXCEPT !.kept = DictSet(@, key_results.value.s, val_results.value),
                                 !.issues = @ \o key_results.issues \o val_results.issues])

\* what is left of MappingHandler.handle once the items are known
MappingLooped(value, unpacked, pointer, included, excluded, config) ==
    IF unpacked.raised # "none" THEN Raise(unpacked.raised)
    ELSE LET looped == MappingLoop(unpacked.items, 1,
                           [pointer |-> pointer, included |-> included, config |-> config],
                           [kept |-> <<>>, issues |-> <<>>, raised |-> "none"])
         IN IF looped.raised # "none" THEN Raise(looped.raised)
            ELSE ContainerAnswer(value, DictV(looped.kept), Len(looped.kept) > 0,
                                 looped.issues, included, excluded, config)

\* MappingHandler.handle of dict[str, int] without patches
MappingHandle(value, pointer, included, excluded, config) ==
    LET checked == MappingTypeCheck(value, config)
    IN IF checked = "TypeError" THEN Raise("TypeError")
       ELSE IF checked = "rejected"
       THEN Ok(value, <<IF config.source = "json"
                        THEN JsonTypeIssue(value, pointer, "object")
                        ELSE StructTypeIssue(value, pointer,
                                 IF config.coerce THEN "Mapping" ELSE "dict")>>)
       ELSE MappingLooped(value, MappingItems(value), pointer, included, excluded, config)

(***************************************************************************)
(* One handler of each kind, called once with any flags.                   *)
(***************************************************************************)
HandlerKinds ==
    {"bool", "none", "int", "str", "enum", "list", "dict",
     "optional", "left_to_right", "discriminated", "record"}
\* the unions and the record class behind the union and record kinds
KindUnion(kind) ==
    CASE kind = "optional" -> Unbuilt("optional", <<Leaf("int"), NoneType>>, <<>>)
      [] kind = "left_to_right" -> Unbuilt("arms", <<Leaf("int"), Leaf("str")>>, <<>>)
      [] kind = "discriminated" ->
            Unbuilt("tagged", <<ArmA, ArmB>>, <<Discriminator(NameKind)>>)
KindRecord == RecordT({}, <<>>)

\* handler.handle(value, pointer, included, excluded, config) of the handler
\* registered for the kind, built on this first dispatch
KindHandle(kind, value, pointer, included, excluded, config) ==
    CASE kind = "bool" -> BoolHandle(value, pointer, included, excluded, config)
      [] kind = "none" -> NoneHandle(value, pointer, included, excluded, config)
      [] kind = "int" -> IntHandle(<<>>, value, pointer, included, excluded, config)
      [] kind = "str" ->
            StringHandle("StringHandler", <<>>, value, pointer, included, excluded, config)
      [] kind = "enum" ->
            EnumHandle("IntE", json_options("IntE"), value, pointer, included, excluded, config)
      [] kind = "list" -> SequenceHandle(value, pointer, included, excluded, config)
      [] kind = "dict" -> MappingHandle(value, pointer, included, excluded, config)
      [] kind = "record" ->
            ModelHandle(KindRecord, ModelBuild(KindRecord, <<>>), value, pointer,
                        included, excluded, config)
      [] OTHER ->
            UnionHandle(UnionBuild(KindUnion(kind)),
                        [value |-> value, pointer |-> pointer, included |-> included,
                         excluded |-> excluded, config |-> config]).ret

KindValues ==
    {Empty, NoneV, IntV(1), BoolV(TRUE), StrV(<<"a">>), ListV(<<>>), ListV(<<IntV(1)>>),
     DictV(<<>>), DictV(<<<<NameA, IntV(1)>>>>),
     DictV(<<<<NameKind, StrV(<<"a">>)>>>>), StructNew(KindRecord, <<>>).value}
\* include everything (the default), nothing, or the one child $.a
KindConfigs ==
    {[Config(s, t, f, "forbid") EXCEPT !.include = inc] :
        s \in {"json", "struct"}, t \in {"json", "struct"}, f \in Flags,
        inc \in {PathEverything, PathNothing, PathExact(Join(RootPointer, NameA))}}

KindInit ==
    /\ leafHandler \in {[kind |-> k, prebuilt |-> FALSE] : k \in HandlerKinds}
    /\ leafCall \in {[pc |-> "pending", value |-> v, config |-> c, included |-> i,
                      excluded |-> e, ret |-> Raise("none")] :
                        v \in KindValues, c \in KindConfigs, i \in BOOLEAN, e \in BOOLEAN}
    /\ HandlersIdle
    /\ RegistryIdle /\ PatchesIdle /\ InstanceIdle /\ PointerIdle

KindHandleCall ==
    /\ leafCall.pc = "pending"
    /\ leafHandler' = [leafHandler EXCEPT !.prebuilt = TRUE]
    /\ leafCall' = [leafCall EXCEPT !.pc = "handled",
                      !.ret = KindHandle(leafHandler.kind, leafCall.value, RootPointer,
                                         leafCall.included, leafCall.excluded, leafCall.config)]
    /\ UNCHANGED <<numberVars, unionVars, modelVars, codecVars,
                   registryVars, patchVars, instanceVars, jsonPointer>>

KindNext == KindHandleCall
SpecKinds == KindInit /\ [][KindNext]_vars

\* the call is one the handler is to skip
Skipped == leafCall.excluded \/ ~leafCall.included \/ leafCall.value = Empty

\* C23: a handler of any kind, called with excluded=true, with included=false
\* or with the Empty sentinel as value, returns exactly (Empty, []).
C23_SkippedIsEmpty ==
    (leafCall.pc = "handled" /\ Skipped) => leafCall.ret = Ok(Empty, <<>>)

(***************************************************************************)
(* The handler-class lookup of a registry with predicates and parents      *)
(***************************************************************************)
\* the type hints looked up: an annotated generic, the generic, its origin
LookupHints == {"Annotated[list[int], C1]", "list[int]", "list"}
LookupResolution(type_hint) ==
    CASE type_hint = "list" -> TypeHintResolution("list", "list", NoOrigin, <<>>)
      [] type_hint = "list[int]" -> TypeHintResolution("list[int]", "list[int]", "list", <<>>)
      [] type_hint = "Annotated[list[int], C1]" ->
            TypeHintResolution("Annotated[list[int], C1]", "list[int]", "list",
                               <<ConstraintC1>>)
\* register() stores a class under thr.type_hint: the keys there can be
ExactKeys == {"list[int]", "list"}
\* the is_type callbacks registered, in registration order, and what each
\* answers True for
Predicates == <<"is_generic_list", "is_list">>
IsType(predicate, type_hint_option) ==
    CASE predicate = "is_generic_list" -> type_hint_option = "list[int]"
      [] predicate = "is_list" -> type_hint_option = "list"

\* child == TypeHandlerRegistry(first, second)
LookupRegistries == {"child", "first", "second"}
LookupParents(r) == IF r = "child" THEN <<"first", "second">> ELSE <<>>
\* every registration has a class of its own
ClassOf(r, slot) == <<r, slot>>

\* self._type_hint_handler_classes.get(option), else the first callback
\* that answers True for the option
OptionClass(reg, r, option) ==
    IF option \in ExactKeys /\ reg.classes[r][option] # NoClass THEN reg.classes[r][option]
    ELSE IF \E k \in 1..Len(reg.callbacks[r]) : IsType(reg.callbacks[r][k][1], option)
    THEN reg.callbacks[r][CHOOSE k \in 1..Len(reg.callbacks[r]) :
                            /\ IsType(reg.callbacks[r][k][1], option)
                            /\ \A j \in 1..(k - 1) : ~IsType(reg.callbacks[r][j][1], option)][2]
    ELSE NoClass
\* the option the for loop breaks at, 0 when it runs to its end
BreakOption(reg, r, options) ==
    IF \E k \in 1..Len(options) : OptionClass(reg, r, options[k]) # NoClass
    THEN CHOOSE k \in 1..Len(options) :
            /\ OptionClass(reg, r, options[k]) # NoClass
            /\ \A j \in 1..(k - 1) : OptionClass(reg, r, options[j]) = NoClass
    ELSE 0

\* the two cache writes and the return
LookupCached(reg, r, thr, type_hint_option, class) ==
    GotClass([reg EXCEPT !.class_cache[r] =
                (type_hint_option :> class) @@ (thr.original_type_hint :> class) @@ @],
             class)

\* get() of a registry, given what the search of its parents answers
RegistryGet(reg, r, thr, options, parents) ==
    IF thr.type_hint \in DOMAIN reg.class_cache[r]
    THEN GotClass(reg, reg.class_cache[r][thr.type_hint])
    ELSE IF BreakOption(reg, r, options) # 0
    THEN LookupCached(reg, r, thr, options[BreakOption(reg, r, options)],
                      OptionClass(reg, r, options[BreakOption(reg, r, options)]))
    ELSE IF parents.ret.raised # "none" THEN MissingClass(parents.registry)
    ELSE LookupCached(parents.registry, r, thr, options[Len(options)], parents.ret.value)

\* for registry in self._registries: try registry.get(...) / break
SearchParents(reg, thr, parents, first) ==
    IF Len(parents) = 0 THEN MissingClass(reg)
    ELSE IF first.ret.raised = "none" THEN first
    ELSE IF Len(parents) = 1 THEN first
    ELSE RegistryGet(first.registry, parents[2], thr, TypeHintOptions(thr), MissingClass(reg))

\* TypeHandlerRegistry.get
TypeHandlerRegistryGet(reg, r, thr) ==
    IF Len(LookupParents(r)) = 0
    THEN RegistryGet(reg, r, thr, TypeHintOptions(thr), MissingClass(reg))
    ELSE RegistryGet(reg, r, thr, TypeHintOptions(thr),
                     SearchParents(reg, thr, LookupParents(r),
                                   RegistryGet(reg, LookupParents(r)[1], thr,
                                               TypeHintOptions(thr), MissingClass(reg))))

MaxLookups == 3        \* lookups made on the child

\* what is registered where: the child has exact keys and callbacks, its
\* parents exact keys
CallbackLists == {<<>>, <<"is_generic_list">>, <<"is_list">>, <<"is_generic_list", "is_list">>,
                  <<"is_list", "is_generic_list">>}
LookupInit ==
    /\ \E exact \in [LookupRegistries -> SUBSET ExactKeys], callbacks \in CallbackLists :
          registry = [classes |-> [r \in LookupRegistries |->
                                      [t \in ExactKeys |->
                                          IF t \in exact[r] THEN ClassOf(r, t) ELSE NoClass]],
                      callbacks |-> [r \in LookupRegistries |->
                                      IF r = "child"
                                      THEN [k \in 1..Len(callbacks) |->
                                                <<callbacks[k], ClassOf(r, callbacks[k])>>]
                                      ELSE <<>>],
                      class_cache |-> [r \in LookupRegistries |-> NoEntries]]
    /\ registryCall = [log |-> <<>>]
    /\ HandlersIdle
    /\ LeafIdle /\ PatchesIdle /\ InstanceIdle /\ PointerIdle

LookupGet ==
    /\ Len(registryCall.log) < MaxLookups
    /\ \E t \in LookupHints :
          Logged([op |-> "get", r |-> "child", type_hint |-> t, ret |-> Idle],
                 TypeHandlerRegistryGet(registry, "child", LookupResolution(t)))

LookupNext == LookupGet
SpecLookup == LookupInit /\ [][LookupNext]_vars

\* the lookup the claim describes, on what is registered in r
ExactHit(r, thr) ==
    \E k \in 1..Len(TypeHintOptions(thr)) :
        /\ TypeHintOptions(thr)[k] \in ExactKeys
        /\ registry.classes[r][TypeHintOptions(thr)[k]] # NoClass
FirstExact(r, thr) ==
    registry.classes[r][TypeHintOptions(thr)[
        CHOOSE k \in 1..Len(TypeHintOptions(thr)) :
            /\ TypeHintOptions(thr)[k] \in ExactKeys
            /\ registry.classes[r][TypeHintOptions(thr)[k]] # NoClass
            /\ \A j \in 1..(k - 1) :
                  ~(TypeHintOptions(thr)[j] \in ExactKeys
                    /\ registry.classes[r][TypeHintOptions(thr)[j]] # NoClass)]]
PredicateClasses(r, thr) ==
    {registry.callbacks[r][k][2] : k \in {j \in 1..Len(registry.callbacks[r]) :
        \E o \in 1..Len(TypeHintOptions(thr)) :
            IsType(registry.callbacks[r][j][1], TypeHintOptions(thr)[o])}}
LocalAnswers(r, thr) ==
    IF ExactHit(r, thr) THEN {FirstExact(r, thr)} ELSE PredicateClasses(r, thr)
OrderedAnswers(thr) ==
    IF LocalAnswers("child", thr) # {} THEN LocalAnswers("child", thr)
    ELSE IF LocalAnswers("first", thr) # {} THEN LocalAnswers("first", thr)
    ELSE LocalAnswers("second", thr)
LookupLog == IF registryCall = Idle THEN <<>> ELSE registryCall.log

\* C24: a lookup answers with the first hit of: the exact registration for
\* the original type hint, for the canonical type, for the canonical origin,
\* then a matching predicate, then the parents in their listed order; a
\* predicate's class is the answer only when none of the three exact keys is
\* registered locally, a parent's only when no local predicate matches, and
\* the lookup fails only when nothing answers.
C24_LookupOrder ==
    \A i \in 1..Len(LookupLog) :
        LookupLog[i].op = "get" =>
            IF LookupLog[i].ret.raised = "none"
            THEN LookupLog[i].ret.value \in OrderedAnswers(LookupResolution(LookupLog[i].type_hint))
            ELSE OrderedAnswers(LookupResolution(LookupLog[i].type_hint)) = {}

\* the registrations of the registries, nothing cached
Uncached == [registry EXCEPT !.class_cache = [r \in LookupRegistries |-> NoEntries]]

\* C29: with no registration in between, every lookup on a registry with
\* parents returns what an uncached lookup of the same type returns: the
\* answer for a type does not depend on the types looked up before it.
C29_CacheIsTransparent ==
    \A i \in 1..Len(LookupLog) :
        LookupLog[i].op = "get" =>
            LookupLog[i].ret =
                TypeHandlerRegistryGet(Uncached, "child",
                                       LookupResolution(LookupLog[i].type_hint)).ret

(***************************************************************************)
(* The type hint resolver, one loop iteration at a time                    *)
(***************************************************************************)
\* type expressions: a class, a TypeAliasType, a string (forward reference)
\* and a subscripted generic or union
ClassT(n) == [k |-> "class", n |-> n, args |-> <<>>]
AliasT(n) == [k |-> "alias", n |-> n, args |-> <<>>]
StringT(n) == [k |-> "str", n |-> n, args |-> <<>>]
GenericT(origin, args) == [k |-> "generic", n |-> origin, args |-> args]
UNRESOLVED == [k |-> "UNRESOLVED", n |-> "", args |-> <<>>]

\* the owners a caller passes: none, two modules, a class
Owners == {"None", "M1", "M2", "K"}
\* the names an owner binds: a module's __dict__, a class's vars()
OwnerScope(owner) ==
    CASE owner = "M1" -> [n \in {"X"} |-> ClassT("int")]
      [] owner = "M2" -> [n \in {"X"} |-> ClassT("str")]
      [] owner = "K" -> [n \in {"X"} |-> ClassT("bool")]
      [] OTHER -> [n \in {} |-> UNRESOLVED]
\* _resolve_forward_ref: for a class vars(owner) is read and then unwrap,
\* which is bound nowhere; for a module eval(type_hint, owner.__dict__)
resolve_forward_ref(type_hint, owner) ==
    IF owner = "K" THEN Raise("UnboundLocalError")
    ELSE IF type_hint.n \in DOMAIN OwnerScope(owner)
    THEN Ok(OwnerScope(owner)[type_hint.n], <<>>)
    ELSE Raise("NameError")

ResolverResult(owner, original_type_hint, origin, type_hint, is_partial) ==
    [owner |-> owner, original_type_hint |-> original_type_hint, origin |-> origin,
     type_hint |-> type_hint, annotations |-> <<>>, is_partial |-> is_partial]

\* a call of _resolve_type_hint in progress: its locals
Frame(type_hint) ==
    [type_hint |-> type_hint, resolved_type_hint |-> type_hint,
     previous_type_hint |-> UNRESOLVED, origin |-> NoOrigin, is_partial |-> FALSE,
     args |-> <<>>, at |-> "while"]
Top(stack) == stack[Len(stack)]
SetTop(stack, frame) == [stack EXCEPT ![Len(stack)] = frame]
Pop(stack) == SubSeq(stack, 1, Len(stack) - 1)

\* the while loop's first test: the hint resolved to is one the cache knows,
\* or the iteration before left it as it was
LoopDetected(frame, cache) ==
    \/ (frame.type_hint # frame.resolved_type_hint /\ frame.resolved_type_hint \in DOMAIN cache)
    \/ frame.previous_type_hint = frame.resolved_type_hint

\* one iteration of the while loop, the test passed: the frame after it, or
\* the exception of the forward reference
WhileBody(frame, aliases, owner, resolve_forward_refs, ref) ==
    CASE frame.resolved_type_hint.k = "str" ->
            IF resolve_forward_refs /\ owner # "None"
            THEN IF ref.raised # "none" THEN ref
                 ELSE Ok([frame EXCEPT !.previous_type_hint = frame.resolved_type_hint,
                                       !.resolved_type_hint = ref.value], <<>>)
            ELSE Ok([frame EXCEPT !.previous_type_hint = frame.resolved_type_hint], <<>>)
      [] frame.resolved_type_hint.k = "alias" ->
            Ok([frame EXCEPT !.previous_type_hint = frame.resolved_type_hint,
                             !.origin = NoOrigin,
                             !.resolved_type_hint = aliases[frame.resolved_type_hint.n]], <<>>)
      [] frame.resolved_type_hint.k = "generic" ->
            Ok([frame EXCEPT !.previous_type_hint = frame.resolved_type_hint,
                             !.origin = frame.resolved_type_hint.n,
                             !.at = "args"], <<>>)
      [] OTHER ->
            Ok([frame EXCEPT !.previous_type_hint = frame.resolved_type_hint,
                             !.origin = NoOrigin, !.at = "return"], <<>>)

\* what a finished call hands its caller's generator: the argument and
\* whether it was partial
WithArgument(frame, type_hint, is_partial) ==
    [frame EXCEPT !.args = Append(@, type_hint), !.is_partial = @ \/ is_partial]

MaxResolutions == 2    \* calls of resolve_type_hint made

AliasNames == {"A", "B"}
AliasValues ==
    {ClassT("int"), AliasT("A"), AliasT("B"), StringT("X"),
     GenericT("list", <<AliasT("A")>>), GenericT("Union", <<AliasT("B"), ClassT("int")>>)}
ResolvedHints ==
    {AliasT("A"), AliasT("B"), StringT("X"), StringT("Y"), GenericT("list", <<StringT("X")>>)}
NoResolutions == [h \in {} |-> UNRESOLVED]

ResolverInit ==
    /\ registry \in {[aliases |-> a, resolved_type_hint_cache |-> NoResolutions] :
                        a \in [AliasNames -> AliasValues]}
    /\ registryCall = [pc |-> "idle", calls |-> 0, type_hint |-> UNRESOLVED,
                       owner |-> "None", resolve_forward_refs |-> FALSE,
                       stack |-> <<>>, cache |-> NoResolutions, ret |-> Raise("none")]
    /\ HandlersIdle
    /\ LeafIdle /\ PatchesIdle /\ InstanceIdle /\ PointerIdle

ResolverFrame == <<numberVars, unionVars, modelVars, codecVars,
                   leafVars, patchVars, instanceVars, jsonPointer>>

\* resolve_type_hint(type_hint, resolve_forward_refs, owner): the memo is
\* read; on a miss _resolve_type_hint starts with an empty cache
ResolveTypeHint ==
    /\ registryCall.pc # "running"
    /\ registryCall.calls < MaxResolutions
    /\ \E type_hint \in ResolvedHints, owner \in Owners, resolve_forward_refs \in BOOLEAN :
          registryCall' =
            IF type_hint \in DOMAIN registry.resolved_type_hint_cache
            THEN [pc |-> "returned", calls |-> registryCall.calls + 1,
                  type_hint |-> type_hint, owner |-> owner,
                  resolve_forward_refs |-> resolve_forward_refs,
                  stack |-> <<>>, cache |-> NoResolutions,
                  ret |-> Ok(registry.resolved_type_hint_cache[type_hint], <<>>)]
            ELSE [pc |-> "running", calls |-> registryCall.calls + 1,
                  type_hint |-> type_hint, owner |-> owner,
                  resolve_forward_refs |-> resolve_forward_refs,
                  stack |-> <<Frame(type_hint)>>, cache |-> (type_hint :> UNRESOLVED),
                  ret |-> Raise("none")]
    /\ UNCHANGED registry
    /\ UNCHANGED ResolverFrame

\* one iteration of the while loop of the innermost call
LoopIteration ==
    /\ registryCall.pc = "running"
    /\ Top(registryCall.stack).at = "while"
    /\ LET frame == Top(registryCall.stack)
           body == WhileBody(frame, registry.aliases, registryCall.owner,
                             registryCall.resolve_forward_refs,
                             resolve_forward_ref(frame.resolved_type_hint, registryCall.owner))
       IN registryCall' =
            IF LoopDetected(frame, registryCall.cache)
            THEN [registryCall EXCEPT !.stack =
                    SetTop(@, [frame EXCEPT !.resolved_type_hint = frame.type_hint,
                                            !.is_partial = TRUE, !.at = "return"])]
            ELSE IF body.raised # "none"
            THEN [registryCall EXCEPT !.pc = "raised", !.stack = <<>>,
                                      !.cache = NoResolutions, !.ret = Raise(body.raised)]
            ELSE [registryCall EXCEPT !.stack = SetTop(@, body.value)]
    /\ UNCHANGED registry
    /\ UNCHANGED ResolverFrame

\* the generator over the arguments: the next argument is resolved by a
\* nested call, which answers at once from the cache or starts its own
\* loop; after the last one the type is built from the resolved arguments
ResolveArgument ==
    /\ registryCall.pc = "running"
    /\ Top(registryCall.stack).at = "args"
    /\ LET frame == Top(registryCall.stack)
           given == frame.resolved_type_hint.args
           unionth == given[Len(frame.args) + 1]
       IN registryCall' =
            IF Len(frame.args) = Len(given)
            THEN [registryCall EXCEPT !.stack =
                    SetTop(@, [frame EXCEPT !.resolved_type_hint = GenericT(frame.origin, frame.args),
                                            !.at = "return"])]
            ELSE IF unionth \notin DOMAIN registryCall.cache
            THEN [registryCall EXCEPT !.stack = Append(@, Frame(unionth)),
                                      !.cache = (unionth :> UNRESOLVED) @@ @]
            ELSE IF registryCall.cache[unionth] = UNRESOLVED
            THEN [registryCall EXCEPT !.stack = SetTop(@, WithArgument(frame, unionth, TRUE))]
            ELSE [registryCall EXCEPT !.stack =
                    SetTop(@, WithArgument(frame, registryCall.cache[unionth], FALSE))]
    /\ UNCHANGED registry
    /\ UNCHANGED ResolverFrame

\* the end of _resolve_type_hint: the cache write and the return, into the
\* caller's generator or, for the outermost call, into resolve_type_hint,
\* which memoizes what is not partial
ResolveReturn ==
    /\ registryCall.pc = "running"
    /\ Top(registryCall.stack).at = "return"
    /\ LET frame == Top(registryCall.stack)
           thr == ResolverResult(registryCall.owner, frame.type_hint, frame.origin,
                                 frame.resolved_type_hint, frame.is_partial)
       IN IF Len(registryCall.stack) = 1
          THEN /\ registryCall' = [registryCall EXCEPT !.pc = "returned", !.stack = <<>>,
                                     !.cache = NoResolutions, !.ret = Ok(thr, <<>>)]
               /\ registry' =
                    IF thr.is_partial THEN registry
                    ELSE [registry EXCEPT !.resolved_type_hint_cache =
                            (frame.type_hint :> thr) @@ @]
          ELSE /\ registryCall' =
                    [registryCall EXCEPT
                        !.cache = (frame.type_hint :> frame.resolved_type_hint) @@ @,
                        !.stack = SetTop(Pop(@), WithArgument(Top(Pop(@)), frame.resolved_type_hint,
                                                              frame.is_partial))]
               /\ UNCHANGED registry
    /\ UNCHANGED ResolverFrame

ResolverNext == ResolveTypeHint \/ LoopIteration \/ ResolveArgument \/ ResolveReturn
SpecResolver == ResolverInit /\ [][ResolverNext]_vars
\* a call that was started keeps running
SpecResolverFair == SpecResolver /\ WF_vars(LoopIteration \/ ResolveArgument \/ ResolveReturn)

Resolving == registryCall # Idle /\ registryCall.pc = "running"
Resolved == registryCall # Idle /\ registryCall.pc = "returned"
ResolverMemo == IF registry = Idle THEN NoResolutions ELSE registry.resolved_type_hint_cache
\* the aliases reached from a hint by following alias values
RECURSIVE AliasChain(_, _)
AliasChain(type_hint, n) ==
    IF n = 0 \/ type_hint.k # "alias" THEN {}
    ELSE {type_hint.n} \cup AliasChain(registry.aliases[type_hint.n], n - 1)
OnAliasCycle(type_hint) ==
    /\ type_hint.k = "alias"
    /\ \E n \in AliasChain(type_hint, Cardinality(AliasNames)) :
          registry.aliases[n].k = "alias"
          /\ registry.aliases[n].n \in AliasChain(type_hint, Cardinality(AliasNames))
          /\ \A m \in AliasChain(type_hint, Cardinality(AliasNames)) : registry.aliases[m].k = "alias"

\* C25, termination: a resolution that was started comes to its end, for
\* every expression over the aliases, their cycles included.
C25_Terminates == Resolving ~> ~Resolving
\* C25, the result: a resolution of an alias on a cycle that returns is
\* partial, and nothing partial is in the global memo.
C25_CyclePartialUnmemoized ==
    /\ (Resolved /\ OnAliasCycle(registryCall.type_hint)
            /\ registryCall.type_hint \notin DOMAIN ResolverMemo)
        => registryCall.ret.value.is_partial
    /\ \A h \in DOMAIN ResolverMemo : ~ResolverMemo[h].is_partial
\* C25: resolve_type_hint terminates for every type expression over a finite
\* set of aliases, alias cycles of any length and unresolvable forward
\* references included; on a cycle the result has is_partial = true, and
\* partial results are never stored in the global memo.
C25_TerminatesPartialOnCycle == C25_Terminates /\ []C25_CyclePartialUnmemoized

ResolverCall == IF registryCall = Idle THEN [pc |-> "idle"] ELSE registryCall
\* the binding of a forward reference the owner's scope holds, looked up
\* when forward references are to be resolved
Bound(call) ==
    call.resolve_forward_refs /\ call.type_hint.n \in DOMAIN OwnerScope(call.owner)

\* C30: what resolve_type_hint(expr, owner, resolve_forward_refs) returns
\* depends on its three arguments only: the resolution is one made for the
\* owner passed, and a forward reference resolves to the binding in that
\* owner's scope, or is partial when the owner has none or forward
\* references are not to be resolved, whatever was resolved before.
C30_DependsOnArguments ==
    /\ ResolverCall.pc = "returned" => ResolverCall.ret.value.owner = ResolverCall.owner
    /\ (ResolverCall.pc \in {"returned", "raised"} /\ ResolverCall.type_hint.k = "str") =>
          IF Bound(ResolverCall)
          THEN ResolverCall.ret =
                  Ok(ResolverResult(ResolverCall.owner, ResolverCall.type_hint, NoOrigin,
                                    OwnerScope(ResolverCall.owner)[ResolverCall.type_hint.n],
                                    FALSE), <<>>)
          ELSE ResolverCall.ret.raised = "none" /\ ResolverCall.ret.value.is_partial

(***************************************************************************)
(* A Constraints bag under append and extendleft                           *)
(***************************************************************************)
MaxGiven == 2          \* constraints handed to the constructor or to one extendleft
MaxBagOps == 2         \* calls made on the bag

\* a callable, by its name
Callable(name) == [t |-> "callable", name |-> name]
BagConstraints ==
    {Default(IntV(1)), Default(IntV(2)), DefaultFactory(Callable("list")), DefaultFactory(Callable("dict")),
     ConstraintC1, Example(IntV(1)), Example(IntV(2))}
GivenConstraints ==
    UNION {[1..n -> BagConstraints] : n \in 0..MaxGiven}

\* B == Constraints(given)
BagInit ==
    /\ leafHandler \in {[constraints |-> ConstraintsNew(given)] :
                            given \in GivenConstraints \ {<<>>}}
    /\ leafCall = [op |-> "new", given |-> <<>>, before |-> <<>>, calls |-> 0]
    /\ HandlersIdle
    /\ RegistryIdle /\ PatchesIdle /\ InstanceIdle /\ PointerIdle

BagFrame == <<numberVars, unionVars, modelVars, codecVars,
              registryVars, patchVars, instanceVars, jsonPointer>>

\* B.append(constraint)
ConstraintsAppend ==
    /\ leafCall.calls < MaxBagOps
    /\ \E c \in BagConstraints :
          /\ leafHandler' = [constraints |-> BagAppend(leafHandler.constraints, c)]
          /\ leafCall' = [op |-> "append", given |-> <<c>>,
                          before |-> leafHandler.constraints, calls |-> leafCall.calls + 1]
    /\ UNCHANGED BagFrame

\* B.extendleft(constraints)
ConstraintsExtendLeft ==
    /\ leafCall.calls < MaxBagOps
    /\ \E cs \in GivenConstraints :
          /\ leafHandler' = [constraints |-> BagExtendLeft(leafHandler.constraints, cs)]
          /\ leafCall' = [op |-> "extendleft", given |-> cs,
                          before |-> leafHandler.constraints, calls |-> leafCall.calls + 1]
    /\ UNCHANGED BagFrame

BagNext == ConstraintsAppend \/ ConstraintsExtendLeft
SpecBag == BagInit /\ [][BagNext]_vars

ExtendedLeft == leafCall # Idle /\ leafCall.op = "extendleft"
\* C26: B.extendleft(cs) leaves every constraint B held in B, adds only
\* constraints of cs whose constraint_id B did not hold, for every pair of
\* ids, default and default_factory on either side included, and B holds at
\* most one of default and default_factory afterwards.
C26_ExtendLeftKeepsTheBag ==
    ExtendedLeft =>
        /\ \A c \in SeqToSet(leafCall.before) : c \in SeqToSet(leafHandler.constraints)
        /\ \A c \in SeqToSet(leafHandler.constraints) \ SeqToSet(leafCall.before) :
              /\ c \in SeqToSet(leafCall.given)
              /\ ConstraintId(c) \notin BagIds(leafCall.before)
        /\ ~({<<"default">>, <<"default_factory">>} \subseteq BagIds(leafHandler.constraints))

(***************************************************************************)
(* Threads making the first dispatch on one cached number handler          *)
(***************************************************************************)
MaxThreads == 2        \* threads calling handler.handle
Threads == 1..MaxThreads

\* the calls validate and do nothing else
RaceConfigs == {c \in HandlerConfigs : c.validate /\ ~c.coerce /\ ~c.convert /\ c.target = "json"}
\* one handler, nothing built; every thread is about to read handler.handle
RaceInit ==
    /\ numberHandler \in {[constraints |-> b, validators |-> <<>>, prebuilt |-> FALSE,
                           handle |-> FALSE] :
                            b \in {c \in NumberBags : Len(NumberBuild(c)) > 0}}
    /\ \E value \in NumberValues, config \in RaceConfigs :
          numberCall = [kind |-> "threads", value |-> value, config |-> config,
                        threads |-> [t \in Threads |-> [pc |-> "get", appended |-> 0,
                                                        ret |-> Idle]]]
    /\ unionHandler = Idle /\ unionCall = Idle
    /\ modelHandler = Idle /\ modelCall = Idle
    /\ codec = Idle /\ codecCall = Idle
    /\ OthersIdle

RaceFrame == <<unionVars, modelVars, codecVars, othersVars>>
ThreadAt(t, pc) == numberCall.threads[t].pc = pc
Moved(t, pc) == numberCall' = [numberCall EXCEPT !.threads[t].pc = pc]

\* handler.handle is read: the bound method in instance.__dict__, or
\* prebuild.__get__ and its hasattr(instance, "_prebuilt")
PrebuildGet(t) ==
    /\ ThreadAt(t, "get")
    /\ Moved(t, IF numberHandler.handle THEN "handle"
                ELSE IF numberHandler.prebuilt THEN "bind" ELSE "build")
    /\ UNCHANGED numberHandler
    /\ UNCHANGED RaceFrame

\* build(): self._validators = []
BuildReset(t) ==
    /\ ThreadAt(t, "build")
    /\ numberHandler' = [numberHandler EXCEPT !.validators = <<>>]
    /\ numberCall' = [numberCall EXCEPT !.threads[t].pc = "append",
                                        !.threads[t].appended = 0]
    /\ UNCHANGED RaceFrame

\* build(): the next self._validators.append(...), or its return
BuildAppend(t) ==
    /\ ThreadAt(t, "append")
    /\ LET validators == NumberBuild(numberHandler.constraints)
           appended == numberCall.threads[t].appended
       IN IF appended < Len(validators)
          THEN /\ numberHandler' = [numberHandler EXCEPT
                                      !.validators = Append(@, validators[appended + 1])]
               /\ numberCall' = [numberCall EXCEPT !.threads[t].appended = appended + 1]
          ELSE /\ Moved(t, "bind")
               /\ UNCHANGED numberHandler
    /\ UNCHANGED RaceFrame

\* setattr(instance, "_prebuilt", True); instance.__dict__["handle"] = method
PrebuildBind(t) ==
    /\ ThreadAt(t, "bind")
    /\ numberHandler' = [numberHandler EXCEPT !.prebuilt = TRUE, !.handle = TRUE]
    /\ Moved(t, "handle")
    /\ UNCHANGED RaceFrame

\* the call of the method: NumberLikeHandler.handle reads self._validators
RaceHandle(t) ==
    /\ ThreadAt(t, "handle")
    /\ numberCall' = [numberCall EXCEPT
                        !.threads[t].pc = "done",
                        !.threads[t].ret = IntHandle(numberHandler.validators, numberCall.value,
                                                     RootPointer, TRUE, FALSE, numberCall.config)]
    /\ UNCHANGED numberHandler
    /\ UNCHANGED RaceFrame

RaceNext ==
    \E t \in Threads :
        PrebuildGet(t) \/ BuildReset(t) \/ BuildAppend(t) \/ PrebuildBind(t) \/ RaceHandle(t)
SpecBuildRace == RaceInit /\ [][RaceNext]_vars

Racing == numberCall # Idle /\ numberCall.kind = "threads"
\* C27: whichever way the threads' first dispatches interleave, every
\* handle call returns what a handler built once returns: it is evaluated
\* against the complete set of validators, never a partly built or reset one.
C27_HandleSeesCompleteBuild ==
    Racing =>
        \A t \in Threads :
            numberCall.threads[t].pc = "done" =>
                numberCall.threads[t].ret =
                    IntHandle(NumberBuild(numberHandler.constraints), numberCall.value,
                              RootPointer, TRUE, FALSE, numberCall.config)

(***************************************************************************)
(* Threads calling handle on one built union handler                       *)
(***************************************************************************)
UnionRaceConfigs ==
    {c \in LeafConfigs : c.source = "json" /\ c.target = "json" /\ ~c.coerce /\ ~c.convert}
BuiltUnion(shape, type_hint, constraints) ==
    UnionBuild(Unbuilt(shape, type_hint, constraints)).h
ThreadStart(value) ==
    [pc |-> "handle", value |-> value, i |-> 1, issues |-> <<>>, key |-> NoneV,
     type_hint |-> NoneV, ret |-> Idle]

\* a built handler, left-to-right or discriminated, and a value per thread
UnionRaceInit ==
    /\ \/ /\ unionHandler \in {BuiltUnion("arms", a, <<>>) : a \in LeftToRightUnions}
          /\ \E values \in [Threads -> LeafValues], config \in UnionRaceConfigs :
                unionCall = [kind |-> "threads", config |-> config,
                             threads |-> [t \in Threads |-> ThreadStart(values[t])]]
       \/ /\ unionHandler \in {BuiltUnion("tagged", a, <<Discriminator(NameKind)>>) :
                                  a \in {<<ArmA, ArmB>>, <<ArmB, ArmA>>}}
          /\ \E values \in [Threads -> DiscriminatedValues], config \in UnionRaceConfigs :
                unionCall = [kind |-> "threads", config |-> config,
                             threads |-> [t \in Threads |-> ThreadStart(values[t])]]
    /\ numberHandler = Idle /\ numberCall = Idle
    /\ modelHandler = Idle /\ modelCall = Idle
    /\ codec = Idle /\ codecCall = Idle
    /\ OthersIdle

UnionRaceFrame == <<numberVars, modelVars, codecVars, othersVars>>
CallOf(t) ==
    [value |-> unionCall.threads[t].value, pointer |-> RootPointer, included |-> TRUE,
     excluded |-> FALSE, config |-> unionCall.config]
ThreadIn(t, strategy, pc) ==
    unionHandler.strategy = strategy /\ unionCall.threads[t].pc = pc
ThreadReturned(t, ret) ==
    unionCall' = [unionCall EXCEPT !.threads[t].pc = "done", !.threads[t].ret = ret]

\* type_handler.handle(...) at position i of the loop: return on no issue,
\* or go on to the next position
HandledAt(t, arm) ==
    /\ unionHandler' = [unionHandler EXCEPT
                          !.type_handlers[unionCall.threads[t].i] = arm.type_handler]
    /\ IF arm.ret.raised # "none" \/ Len(arm.ret.issues) = 0
       THEN ThreadReturned(t, arm.ret)
       ELSE unionCall' = [unionCall EXCEPT !.threads[t].pc = "handle",
                                           !.threads[t].issues = @ \o arm.ret.issues,
                                           !.threads[t].i = @ + 1]

\* _left_to_right_handle: the while test and self._type_handlers[i]
LeftToRightRead(t) ==
    /\ ThreadIn(t, "left_to_right", "handle")
    /\ LET thread == unionCall.threads[t]
       IN IF thread.i > Len(unionHandler.type_handlers)
          THEN ThreadReturned(t, Ok(thread.value, thread.issues)) /\ UNCHANGED unionHandler
          ELSE IF unionHandler.type_handlers[thread.i] = NoneV
          THEN /\ unionCall' = [unionCall EXCEPT !.threads[t].pc = "popleft"]
               /\ UNCHANGED unionHandler
          ELSE HandledAt(t, ArmHandle(unionHandler.type_handlers[thread.i], CallOf(t)))
    /\ UNCHANGED UnionRaceFrame

\* self._type_hints.popleft(), break when the deque is empty
LeftToRightPop(t) ==
    /\ ThreadIn(t, "left_to_right", "popleft")
    /\ IF Len(unionHandler.type_hints) = 0
       THEN /\ ThreadReturned(t, Ok(unionCall.threads[t].value, unionCall.threads[t].issues))
            /\ UNCHANGED unionHandler
       ELSE /\ unionHandler' = [unionHandler EXCEPT !.type_hints = popleft(@).rest]
            /\ unionCall' = [unionCall EXCEPT
                                !.threads[t].pc = "store",
                                !.threads[t].type_hint = popleft(unionHandler.type_hints).item]
    /\ UNCHANGED UnionRaceFrame

\* self._type_handlers[i] = self.get_type_handler(type_hint), and its handle
LeftToRightStore(t) ==
    /\ ThreadIn(t, "left_to_right", "store")
    /\ HandledAt(t, ArmHandle(GetTypeHandler(unionCall.threads[t].type_hint), CallOf(t)))
    /\ UNCHANGED UnionRaceFrame

\* _discriminated_handle: the discriminator is read and
\* self._disc_type_handlers[disc_value] looked up
DiscriminatedRead(t) ==
    /\ ThreadIn(t, "discriminated", "handle")
    /\ LET looked == DiscLookup(unionHandler, unionCall.threads[t].value, unionCall.config)
           call == CallOf(t)
       IN IF looked.raised = "none" /\ looked.found
                /\ ~DictHas(unionHandler.disc_type_handlers, looked.disc_value)
          THEN /\ unionCall' = [unionCall EXCEPT !.threads[t].pc = "pop",
                                                 !.threads[t].key = looked.disc_value]
               /\ UNCHANGED unionHandler
          ELSE /\ unionHandler' = DiscriminatedLooked(unionHandler, call, looked).h
               /\ ThreadReturned(t, DiscriminatedLooked(unionHandler, call, looked).ret)
    /\ UNCHANGED UnionRaceFrame

\* self._disc_type_hints.pop(disc_value), invalid_discriminator on KeyError
DiscriminatedPop(t) ==
    /\ ThreadIn(t, "discriminated", "pop")
    /\ LET key == unionCall.threads[t].key
       IN IF ~DictHas(unionHandler.disc_type_hints, key)
          THEN /\ ThreadReturned(t, RaiseIssue(InvalidDiscriminatorIssue(
                                            unionCall.threads[t].value, RootPointer,
                                            DiscKey(unionHandler, unionCall.config))))
               /\ UNCHANGED unionHandler
          ELSE /\ unionHandler' = [unionHandler EXCEPT
                                      !.disc_type_hints = SelectSeq(@, LAMBDA e : e[1] # key)]
               /\ unionCall' = [unionCall EXCEPT
                                   !.threads[t].pc = "store",
                                   !.threads[t].type_hint =
                                        DictGet(unionHandler.disc_type_hints, key)]
    /\ UNCHANGED UnionRaceFrame

\* self._disc_type_handlers[disc_value] = self.get_type_handler(type_hint),
\* and its handle
DiscriminatedStore(t) ==
    /\ ThreadIn(t, "discriminated", "store")
    /\ LET key == unionCall.threads[t].key
           stored == [unionHandler EXCEPT
                        !.disc_type_handlers =
                            DictSet(@, key, GetTypeHandler(unionCall.threads[t].type_hint))]
       IN /\ unionHandler' = DiscriminatedAt(stored, key, CallOf(t)).h
          /\ ThreadReturned(t, DiscriminatedAt(stored, key, CallOf(t)).ret)
    /\ UNCHANGED UnionRaceFrame

UnionRaceNext ==
    \E t \in Threads :
        \/ LeftToRightRead(t) \/ LeftToRightPop(t) \/ LeftToRightStore(t)
        \/ DiscriminatedRead(t) \/ DiscriminatedPop(t) \/ DiscriminatedStore(t)
SpecUnionRace == UnionRaceInit /\ [][UnionRaceNext]_vars

UnionRacing == unionCall # Idle /\ unionCall.kind = "threads"
\* C28: whichever way the threads' handle calls on one built union handler
\* interleave, every call returns what the call returns in a sequential
\* execution: the first arm in declared order that accepts the value, or
\* the arm of the declared discriminator value.
C28_SequentialResults ==
    UnionRacing =>
        \A t \in Threads :
            unionCall.threads[t].pc = "done" =>
                unionCall.threads[t].ret =
                    UnionHandleBuilt(BuiltUnion(unionHandler.shape, unionHandler.type_hint,
                                                unionHandler.constraints), CallOf(t)).ret

====
